---- MODULE Spec2Model ----
(***************************************************************************)
(* Model of the fraud analytics pipeline: the rule engine of               *)
(* src/src/risk_assessment.py (RiskAssessor, assess_transaction_risk) and  *)
(* the orchestration of src/main.py (fraud_analytics_pipeline).            *)
(*                                                                         *)
(* Conventions.                                                            *)
(*  - A table is a sequence of rows; the set db_tables / temp_tables says  *)
(*    which tables exist.                                                  *)
(*  - timestamp is a number of seconds since midnight of day 0.             *)
(*  - amount is a whole number of units. An aggregate is kept as the triple *)
(*    (count, sum, sum of squares) and x > avg + 2*stddev is decided in     *)
(*    exact arithmetic, except where the two sides are equal in exact       *)
(*    arithmetic and the rounding of the DOUBLE average decides: there the  *)
(*    average is computed in floating point of MantissaBits bits.           *)
(*  - risk_score and risk_weight are in hundredths (0.6 is 60), so that a   *)
(*    score such as 0.75 can be written.                                    *)
(***************************************************************************)
EXTENDS Integers, Sequences, FiniteSets, TLC

\* ------------------------------------------------------------------------
\* Program constants
\* ------------------------------------------------------------------------

\* risk_rules rows (rule_id, risk_weight), in hundredths
WEIGHT_HIGH_AMOUNT == 60
WEIGHT_ODD_HOURS == 40
WEIGHT_HIGH_FREQUENCY == 50
WEIGHT_UNUSUAL_MERCHANT == 30
WEIGHT_ACCOUNT_VELOCITY == 40

\* EXTRACT(hour FROM timestamp) >= 1 AND ... <= 5
ODD_HOUR_FROM == 1
ODD_HOUR_TO == 5
\* DATEDIFF('MINUTE', prev_timestamp, timestamp) < 10
CLOSE_MINUTES == 10
\* HAVING COUNT(*) >= 3
CLOSE_PAIRS_MIN == 3
\* HAVING COUNT(*) > 10
POPULAR_OVER == 10
\* avg + 2 * stddev
STDDEV_FACTOR == 2
\* CASE WHEN risk_score >= 0.8 ... >= 0.6 ... >= 0.3, in hundredths
LEVEL_VERY_HIGH == 80
LEVEL_HIGH == 60
LEVEL_MEDIUM == 30

SECONDS_PER_MINUTE == 60
SECONDS_PER_HOUR == 3600
SECONDS_PER_DAY == 86400

\* ------------------------------------------------------------------------
\* SQL helpers
\* ------------------------------------------------------------------------

Null == "NULL"

Indices(t) == 1..Len(t)

RECURSIVE SumOver(_, _)
\* SUM(f[i]) for i in the finite set S of indices
SumOver(f, S) ==
    IF S = {} THEN 0
    ELSE LET i == CHOOSE j \in S : TRUE IN f[i] + SumOver(f, S \ {i})

\* EXTRACT(hour FROM timestamp)
HourOf(ts) == (ts % SECONDS_PER_DAY) \div SECONDS_PER_HOUR

\* CAST(timestamp AS DATE)
DateOf(ts) == ts \div SECONDS_PER_DAY

\* DATEDIFF('MINUTE', a, b): the number of minute boundaries between a and b
DateDiffMinute(a, b) == (b \div SECONDS_PER_MINUTE) - (a \div SECONDS_PER_MINUTE)

\* The aggregate pair (AVG(x), STDDEV(x)) of the values v[i], i in S, kept exactly
Aggregate(v, S) ==
    [cnt |-> Cardinality(S),
     sum |-> SumOver(v, S),
     sumsq |-> SumOver([i \in S |-> v[i] * v[i]], S)]

\* x > avg + 2 * stddev for the aggregate st. STDDEV is the sample standard
\* deviation: NULL for a single value, and a comparison with NULL selects no row.
\* With D = cnt*x - sum: x - avg > 2*stddev  iff  D > 0 and
\* D^2 * (cnt-1) > 4 * cnt * (cnt*sumsq - sum^2).
ExceedsAvgPlusStddev(x, st) ==
    LET D == st.cnt * x - st.sum
    IN  /\ st.cnt >= 2
        /\ D > 0
        /\ D * D * (st.cnt - 1) >
             STDDEV_FACTOR * STDDEV_FACTOR * st.cnt * (st.cnt * st.sumsq - st.sum * st.sum)

\* significant bits the model keeps of a DOUBLE (which keeps 53): whole numbers
\* below 2^MantissaBits are exact, as whole amounts are in a DOUBLE
MantissaBits == 6

RECURSIVE Pow2(_)
Pow2(n) == IF n = 0 THEN 1 ELSE 2 * Pow2(n - 1)

RECURSIVE UlpOf(_, _)
\* The spacing of the floating-point numbers around v >= 0: the least power of
\* two u, from u on, with v < u * 2^MantissaBits
UlpOf(v, u) == IF v < u * Pow2(MantissaBits) THEN u ELSE UlpOf(v, 2 * u)

\* num / den rounded to the nearest floating-point number, ties to even
\* (for num / den >= 2^(MantissaBits-1), where the spacing is 1 or more)
RoundRatio(num, den) ==
    LET u == UlpOf(num \div den, 1)
        m == den * u
        q == num \div m
        r == num % m
    IN  IF 2 * r < m THEN q * u
        ELSE IF 2 * r > m THEN (q + 1) * u
        ELSE IF q % 2 = 0 THEN q * u ELSE (q + 1) * u

RECURSIVE SumOfEqual(_, _)
\* AVG's running sum over n rows of the same DOUBLE x: value += x, row by row,
\* each addition rounded
SumOfEqual(x, n) ==
    IF n = 0 THEN 0 ELSE RoundRatio(SumOfEqual(x, n - 1) + x, 1)

\* x > AVG for a group of n rows that all hold x: AVG is the rounded quotient of
\* the running sum by n (both sides scaled by 2^MantissaBits)
ExceedsAvgOfEqual(x, n) ==
    x * Pow2(MantissaBits) > RoundRatio(SumOfEqual(x, n) * Pow2(MantissaBits), n)

\* amount > avg_amount + 2 * stddev_amount over the DOUBLE column amount. When
\* all amounts of the group are equal STDDEV is exactly 0 and the comparison is
\* amount > AVG, which the rounding of AVG decides; otherwise the rounding is far
\* below the distance of the two sides and the comparison is taken exactly.
ExceedsAvgPlusStddevDouble(x, st) ==
    IF st.cnt * st.sumsq = st.sum * st.sum
    THEN st.cnt >= 2 /\ ExceedsAvgOfEqual(x, st.cnt)
    ELSE ExceedsAvgPlusStddev(x, st)

RECURSIVE InsertSorted(_, _)
InsertSorted(s, x) ==
    IF s = <<>> THEN <<x>>
    ELSE IF x >= s[Len(s)] THEN Append(s, x)
    ELSE Append(InsertSorted(SubSeq(s, 1, Len(s) - 1), x), s[Len(s)])

RECURSIVE SortedOf(_, _)
\* ORDER BY timestamp of the rows S of table t
SortedOf(t, S) ==
    IF S = {} THEN <<>>
    ELSE LET i == CHOOSE j \in S : TRUE
         IN InsertSorted(SortedOf(t, S \ {i}), t[i].timestamp)

\* ------------------------------------------------------------------------
\* Tables of the rule engine, as the queries of apply_risk_rules build them
\* ------------------------------------------------------------------------

RowsOfType(t, ty) == {i \in Indices(t) : t[i].transaction_type = ty}
RowsOfAccount(t, a) == {i \in Indices(t) : t[i].account_number = a}
RowsOfCategory(t, c) == {i \in Indices(t) : t[i].merchant_category = c}

\* CREATE TEMP TABLE amount_stats AS SELECT transaction_type, AVG(amount),
\* STDDEV(amount) FROM transactions GROUP BY transaction_type
AmountStatsOf(t) ==
    {[transaction_type |-> ty,
      agg |-> Aggregate([i \in Indices(t) |-> t[i].amount], RowsOfType(t, ty))]
        : ty \in {t[i].transaction_type : i \in Indices(t)}}

\* Rule 1 WHERE clause: the row joins an amount_stats row of its type and
\* amount > avg_amount + 2 * stddev_amount
HighAmount(r, stats) ==
    \E s \in stats : /\ r.transaction_type = s.transaction_type
                     /\ ExceedsAvgPlusStddevDouble(r.amount, s.agg)

\* Mutant of OddHours: the rule reads the ground-truth label too
OddHours_OrLabelled(r) ==
    \/ HourOf(r.timestamp) >= ODD_HOUR_FROM /\ HourOf(r.timestamp) <= ODD_HOUR_TO
    \/ r.is_fraud

\* Rule 2 WHERE clause
OddHours(r) ==
    /\ HourOf(r.timestamp) >= ODD_HOUR_FROM
    /\ HourOf(r.timestamp) <= ODD_HOUR_TO

\* Mutant of ClosePairs: the first row of the account, whose lag is NULL, counted too
ClosePairs_FirstRowCounts(t, a) ==
    LET s == SortedOf(t, RowsOfAccount(t, a))
    IN Cardinality({k \in 1..Len(s) :
                      k = 1 \/ DateDiffMinute(s[k - 1], s[k]) < CLOSE_MINUTES})

\* The rows of the inner query of rule 3 that pass its WHERE clause, counted:
\* per account in timestamp order, prev_timestamp (lag) is not NULL and
\* DATEDIFF('MINUTE', prev_timestamp, timestamp) < 10
ClosePairs(t, a) ==
    LET s == SortedOf(t, RowsOfAccount(t, a))
    IN Cardinality({k \in 2..Len(s) : DateDiffMinute(s[k - 1], s[k]) < CLOSE_MINUTES})

\* Mutant of HighFrequencyAccountsOf: HAVING COUNT(*) >= 2
HighFrequencyAccountsOf_TwoPairs(t) ==
    {a \in {t[i].account_number : i \in Indices(t)} :
        ClosePairs(t, a) >= CLOSE_PAIRS_MIN - 1}

\* CREATE OR REPLACE TEMP TABLE high_frequency_accounts ... HAVING COUNT(*) >= 3
HighFrequencyAccountsOf(t) ==
    {a \in {t[i].account_number : i \in Indices(t)} : ClosePairs(t, a) >= CLOSE_PAIRS_MIN}

\* Rule 3 WHERE clause
HighFrequency(r, hfa) == r.account_number \in hfa

\* Mutant of PopularCategories: HAVING COUNT(*) >= 10
PopularCategories_AtLeast(t) ==
    {c \in {t[i].merchant_category : i \in Indices(t)} \ {Null} :
        Cardinality(RowsOfCategory(t, c)) >= POPULAR_OVER}

\* The subquery of rule 4: categories, not NULL, with COUNT(*) > 10
PopularCategories(t) ==
    {c \in {t[i].merchant_category : i \in Indices(t)} \ {Null} :
        Cardinality(RowsOfCategory(t, c)) > POPULAR_OVER}

\* Rule 4 WHERE clause, in SQL's three-valued logic: for a NULL category
\* "= 'suspicious'" is NULL and "NOT IN (...)" is TRUE only for an empty list
UnusualMerchant(r, popular) ==
    IF r.merchant_category = Null THEN popular = {}
    ELSE \/ r.merchant_category = "suspicious"
         \/ r.merchant_category \notin popular

\* CREATE OR REPLACE TEMP TABLE account_daily_counts ... GROUP BY account_number,
\* CAST(timestamp AS DATE)
AccountDailyCountsOf(t) ==
    {[account_number |-> t[i].account_number,
      tx_date |-> DateOf(t[i].timestamp),
      daily_count |-> Cardinality({j \in RowsOfAccount(t, t[i].account_number) :
                                     DateOf(t[j].timestamp) = DateOf(t[i].timestamp)})]
        : i \in Indices(t)}

\* CREATE OR REPLACE TEMP TABLE account_avg_activity ... GROUP BY account_number
AccountAvgActivityOf(adc) ==
    {[account_number |-> a,
      agg |-> LET S == {c \in adc : c.account_number = a}
              IN Aggregate([c \in S |-> c.daily_count], S)]
        : a \in {c.account_number : c \in adc}}

\* Rule 5 WHERE clause over the join of account_daily_counts and account_avg_activity
AccountVelocity(r, adc, aaa) ==
    \E c \in adc : \E a \in aaa :
        /\ c.account_number = a.account_number
        /\ r.account_number = c.account_number
        /\ DateOf(r.timestamp) = c.tx_date
        /\ ExceedsAvgPlusStddev(c.daily_count, a.agg)
        /\ a.agg.sum > 0

\* Mutant of RiskRulesRows: rule 3 weighs as much as rule 1
RiskRulesRows_HeavyRule3 ==
    {[rule_id |-> 1, risk_weight |-> WEIGHT_HIGH_AMOUNT],
     [rule_id |-> 2, risk_weight |-> WEIGHT_ODD_HOURS],
     [rule_id |-> 3, risk_weight |-> WEIGHT_HIGH_AMOUNT],
     [rule_id |-> 4, risk_weight |-> WEIGHT_UNUSUAL_MERCHANT],
     [rule_id |-> 5, risk_weight |-> WEIGHT_ACCOUNT_VELOCITY]}

\* INSERT INTO risk_rules VALUES ...
RiskRulesRows ==
    {[rule_id |-> 1, risk_weight |-> WEIGHT_HIGH_AMOUNT],
     [rule_id |-> 2, risk_weight |-> WEIGHT_ODD_HOURS],
     [rule_id |-> 3, risk_weight |-> WEIGHT_HIGH_FREQUENCY],
     [rule_id |-> 4, risk_weight |-> WEIGHT_UNUSUAL_MERCHANT],
     [rule_id |-> 5, risk_weight |-> WEIGHT_ACCOUNT_VELOCITY]}

\* (SELECT risk_weight FROM risk_rules WHERE rule_id = k)
RiskWeight(rules, k) == (CHOOSE r \in rules : r.rule_id = k).risk_weight

\* Mutant of RiskLevelOf: the Very High threshold compared with > instead of >=
RiskLevelOf_StrictVeryHigh(score) ==
    IF score > LEVEL_VERY_HIGH THEN "Very High"
    ELSE IF score >= LEVEL_HIGH THEN "High"
    ELSE IF score >= LEVEL_MEDIUM THEN "Medium"
    ELSE "Low"

\* Mutant of RiskLevelOf: the High and Medium branches in the wrong order
RiskLevelOf_MediumFirst(score) ==
    IF score >= LEVEL_VERY_HIGH THEN "Very High"
    ELSE IF score >= LEVEL_MEDIUM THEN "Medium"
    ELSE IF score >= LEVEL_HIGH THEN "High"
    ELSE "Low"

\* CASE WHEN risk_score >= 0.8 THEN 'Very High' WHEN ... END
RiskLevelOf(score) ==
    IF score >= LEVEL_VERY_HIGH THEN "Very High"
    ELSE IF score >= LEVEL_HIGH THEN "High"
    ELSE IF score >= LEVEL_MEDIUM THEN "Medium"
    ELSE "Low"

\* CREATE TABLE risk_scores AS SELECT ..., 0.0 AS risk_score, 'Low' AS risk_level
\* FROM transactions
InitialRiskScores(t) ==
    [i \in Indices(t) |->
        [transaction_id |-> t[i].transaction_id,
         account_number |-> t[i].account_number,
         timestamp |-> t[i].timestamp,
         transaction_type |-> t[i].transaction_type,
         amount |-> t[i].amount,
         merchant_category |-> t[i].merchant_category,
         is_fraud |-> t[i].is_fraud,
         risk_score |-> 0,
         risk_level |-> "Low"]]

\* Mutant of AddWeight: the UPDATE without its WHERE clause
AddWeight_NoWhere(rs, hit, w) ==
    [i \in Indices(rs) |-> [rs[i] EXCEPT !.risk_score = @ + w]]

\* UPDATE risk_scores SET risk_score = risk_score + w WHERE <the row is in hit>
AddWeight(rs, hit, w) ==
    [i \in Indices(rs) |->
        IF i \in hit THEN [rs[i] EXCEPT !.risk_score = @ + w] ELSE rs[i]]

\* UPDATE risk_scores SET risk_level = CASE ... END
WithRiskLevels(rs) ==
    [i \in Indices(rs) |-> [rs[i] EXCEPT !.risk_level = RiskLevelOf(rs[i].risk_score)]]

\* ------------------------------------------------------------------------
\* State
\* ------------------------------------------------------------------------

VARIABLES
    db_tables,                \* names of the tables of the database file
    transactions,             \* table transactions
    risk_scores,              \* table risk_scores
    risk_rules,               \* table risk_rules
    temp_tables,              \* names of the temporary tables of the open connection
    amount_stats,             \* temporary table amount_stats
    high_frequency_accounts,  \* temporary table high_frequency_accounts
    account_daily_counts,     \* temporary table account_daily_counts
    account_avg_activity,     \* temporary table account_avg_activity
    export_file,              \* rows of the CSV written by export_to_csv
    pc,                       \* the statement assess_transaction_risk executes next
    result,                   \* what assess_transaction_risk returned last
    calls_left,               \* calls of assess_transaction_risk the caller still makes
    completed,                \* risk_scores as each completed apply_risk_rules left it
    error,                    \* the statement whose exception the handler reported last
    db_file,                  \* the database file exists
    csv_file,                 \* the transactions CSV: whether it exists, and its rows
    steps,                    \* the steps fraud_analytics_pipeline was asked to run
    flow_pc,                  \* the step fraud_analytics_pipeline is at
    data_generated,           \* local of fraud_analytics_pipeline
    data_processed,           \* local of fraud_analytics_pipeline
    risk_assessed,            \* local of fraud_analytics_pipeline
    viz_read,                 \* what generate_visualizations read of risk_scores
    report_written,           \* fraud_analytics_report.md was written
    summary_df,               \* the frame the last direct call of get_risk_summary returned
    high_risk_df,             \* the frame the last direct call of get_high_risk_transactions returned
    limit,                    \* the argument of that call
    fp_pc,                    \* fraud_pipeline: the step its flow is at
    fp_inputs,                \* fraud_pipeline: the files the generator will write
    fp_csv,                   \* fraud_pipeline: the rows of data/transactions.csv
    fp_tables,                \* fraud_pipeline: names of the tables of its database file
    fp_transactions,          \* fraud_pipeline: table transactions
    enriched_transactions,    \* fraud_pipeline: table enriched_transactions
    risk_assessment,          \* fraud_pipeline: table risk_assessment
    risk_report               \* fraud_pipeline: what generate_summary_report computed

dbVars == <<db_tables, transactions, risk_scores, risk_rules>>
tempVars == <<temp_tables, amount_stats, high_frequency_accounts,
              account_daily_counts, account_avg_activity>>
flowVars == <<csv_file, steps, flow_pc, data_generated, data_processed, risk_assessed,
              viz_read, report_written>>
outVars == <<summary_df, high_risk_df, limit>>
mainVars == <<dbVars, tempVars, export_file, pc, result, calls_left, completed, error,
              db_file, flowVars, outVars>>
fpVars == <<fp_pc, fp_inputs, fp_csv, fp_tables, fp_transactions, enriched_transactions,
            risk_assessment, risk_report>>
vars == <<dbVars, tempVars, export_file, pc, result, calls_left, completed, error,
          db_file, flowVars, outVars, fpVars>>

\* ------------------------------------------------------------------------
\* Bounds and inputs
\* ------------------------------------------------------------------------

\* calls of assess_transaction_risk on one database file
MaxRuns == 2
\* rows of account A in quick succession, one minute apart
MaxBurst == 3
\* further days on which account A has one transaction
MaxDays == 5
\* payments of account P, one a day, of category retail (none or this many)
MaxPad == 11

MakeRow(id, acct, ts, ty, amt, cat) ==
    [transaction_id |-> id, account_number |-> acct, timestamp |-> ts,
     transaction_type |-> ty, amount |-> amt, merchant_category |-> cat,
     is_fraud |-> FALSE]

\* A transactions table: one free row (the probe), then burst rows of account A
\* at 02:01, 02:02, ... of day 0, then one row of account A at noon of each of
\* the next days, then pad payments of account P.
MixedTable(probe, burst, days, pad) ==
    <<MakeRow(1, probe.account_number, probe.hour * SECONDS_PER_HOUR, "deposit",
              probe.amount, probe.merchant_category)>>
    \o [i \in 1..burst |->
          MakeRow(1 + i, "A", 2 * SECONDS_PER_HOUR + i * SECONDS_PER_MINUTE,
                  "deposit", 1, "retail")]
    \o [j \in 1..days |->
          MakeRow(1 + burst + j, "A", j * SECONDS_PER_DAY + 12 * SECONDS_PER_HOUR,
                  "deposit", 1, "retail")]
    \o [k \in 1..pad |->
          MakeRow(1 + burst + days + k, "P", k * SECONDS_PER_DAY + 13 * SECONDS_PER_HOUR,
                  "payment", 1, "retail")]

Probes ==
    [account_number : {"A", "B"}, hour : {0, 2}, amount : {1, 10},
     merchant_category : {"retail", "suspicious"}]

MixedTables ==
    {MixedTable(p, b, d, n) : p \in Probes, b \in 0..MaxBurst, d \in 0..MaxDays,
                              n \in {0, MaxPad}}

\* ------------------------------------------------------------------------
\* assess_transaction_risk
\* ------------------------------------------------------------------------

\* No method of RiskAssessor has been called directly
NoCalls ==
    /\ summary_df = <<>>
    /\ high_risk_df = <<>>
    /\ limit = 0

\* The number 0 of the metrics: <<numerator, denominator>>
RatZero == <<0, 1>>

\* No report has been generated
FpNoReport ==
    [status |-> "none", total_count |-> 0, fraud_count |-> 0, risk_summary |-> <<>>,
     true_positives |-> 0, false_negatives |-> 0, false_positives |-> 0,
     true_negatives |-> 0, precision |-> RatZero, recall |-> RatZero,
     f1_score |-> RatZero, high_risk |-> <<>>]

\* The other pipeline (src/fraud_pipeline) is not run
NoFraudPipeline ==
    /\ fp_pc = "idle"
    /\ fp_inputs = <<>>
    /\ fp_csv = <<>>
    /\ fp_tables = {}
    /\ fp_transactions = <<>>
    /\ enriched_transactions = <<>>
    /\ risk_assessment = <<>>
    /\ risk_report = FpNoReport

\* assess_transaction_risk called on its own (risk_assessment.py run directly):
\* no flow is running
NoFlow ==
    /\ csv_file = [exists |-> FALSE, rows |-> <<>>]
    /\ steps = {}
    /\ flow_pc = "idle"
    /\ data_generated = FALSE
    /\ data_processed = FALSE
    /\ risk_assessed = FALSE
    /\ viz_read = [invoked |-> FALSE, found |-> FALSE, risk_scores |-> <<>>]
    /\ report_written = FALSE

\* The state before the first call: the database file holds the transactions
\* table that process_transaction_data loaded.
InitWith(tables, calls) ==
    /\ transactions \in tables
    /\ db_tables = {"transactions"}
    /\ risk_scores = <<>>
    /\ risk_rules = {}
    /\ temp_tables = {}
    /\ amount_stats = {}
    /\ high_frequency_accounts = {}
    /\ account_daily_counts = {}
    /\ account_avg_activity = {}
    /\ export_file = {}
    /\ pc = "start"
    /\ result = "none"
    /\ calls_left = calls
    /\ completed = <<>>
    /\ error = "none"
    /\ db_file = TRUE
    /\ NoFlow
    /\ NoCalls
    /\ NoFraudPipeline

Init == InitWith(MixedTables, 1)

\* risk_assessor = RiskAssessor(db_path): a new connection, with no temporary table
RiskAssessorInit ==
    /\ pc = "start"
    /\ calls_left > 0
    /\ calls_left' = calls_left - 1
    /\ temp_tables' = {}
    /\ amount_stats' = {}
    /\ high_frequency_accounts' = {}
    /\ account_daily_counts' = {}
    /\ account_avg_activity' = {}
    /\ result' = "none"
    /\ pc' = "create_risk_scores"
    /\ UNCHANGED <<dbVars, export_file, completed>>
    /\ error' = "none"
    /\ db_file' = TRUE
    /\ UNCHANGED flowVars
    /\ UNCHANGED <<outVars, fpVars>>

\* create_risk_tables without the DROP: CREATE TABLE IF NOT EXISTS risk_scores AS
\* SELECT ... FROM transactions, which keeps the table of an earlier run
CreateRiskScores_IfNotExists ==
    /\ pc = "create_risk_scores"
    /\ "transactions" \in db_tables
    /\ risk_scores' = IF "risk_scores" \in db_tables THEN risk_scores
                      ELSE InitialRiskScores(transactions)
    /\ db_tables' = db_tables \cup {"risk_scores"}
    /\ pc' = "create_risk_rules"
    /\ UNCHANGED <<transactions, risk_rules, tempVars, export_file, result, calls_left, completed>>
    /\ UNCHANGED <<error, db_file, flowVars>>
    /\ UNCHANGED <<outVars, fpVars>>

\* create_risk_tables, first execute: DROP TABLE IF EXISTS risk_scores; CREATE TABLE
\* risk_scores AS SELECT ... FROM transactions
CreateRiskScores ==
    /\ pc = "create_risk_scores"
    /\ "transactions" \in db_tables
    /\ risk_scores' = InitialRiskScores(transactions)
    /\ db_tables' = db_tables \cup {"risk_scores"}
    /\ pc' = "create_risk_rules"
    /\ UNCHANGED <<transactions, risk_rules, tempVars, export_file, result, calls_left, completed>>
    /\ UNCHANGED <<error, db_file, flowVars>>
    /\ UNCHANGED <<outVars, fpVars>>

\* create_risk_tables, second execute: DROP TABLE IF EXISTS risk_rules; CREATE TABLE
\* risk_rules; INSERT INTO risk_rules VALUES ...
CreateRiskRules ==
    /\ pc = "create_risk_rules"
    /\ risk_rules' = RiskRulesRows
    /\ db_tables' = db_tables \cup {"risk_rules"}
    /\ pc' = "rule_1"
    /\ UNCHANGED <<transactions, risk_scores, tempVars, export_file, result, calls_left, completed>>
    /\ UNCHANGED <<error, db_file, flowVars>>
    /\ UNCHANGED <<outVars, fpVars>>

\* Mutant of ApplyRule1: CREATE OR REPLACE TEMP TABLE amount_stats, which a
\* connection that already has the table accepts
ApplyRule1_OrReplace ==
    /\ pc = "rule_1"
    /\ LET stats == AmountStatsOf(transactions)
           hit == {i \in Indices(risk_scores) : HighAmount(risk_scores[i], stats)}
       IN /\ amount_stats' = stats
          /\ risk_scores' = AddWeight(risk_scores, hit, RiskWeight(risk_rules, 1))
    /\ temp_tables' = temp_tables \cup {"amount_stats"}
    /\ pc' = "rule_2"
    /\ UNCHANGED <<db_tables, transactions, risk_rules, high_frequency_accounts,
                   account_daily_counts, account_avg_activity, export_file, result,
                   calls_left, completed>>
    /\ UNCHANGED <<error, db_file, flowVars>>
    /\ UNCHANGED <<outVars, fpVars>>

\* apply_risk_rules, first execute: CREATE TEMP TABLE amount_stats (which fails if
\* the connection already has one), then the UPDATE of rule 1
ApplyRule1 ==
    /\ pc = "rule_1"
    /\ "amount_stats" \notin temp_tables
    /\ LET stats == AmountStatsOf(transactions)
           hit == {i \in Indices(risk_scores) : HighAmount(risk_scores[i], stats)}
       IN /\ amount_stats' = stats
          /\ risk_scores' = AddWeight(risk_scores, hit, RiskWeight(risk_rules, 1))
    /\ temp_tables' = temp_tables \cup {"amount_stats"}
    /\ pc' = "rule_2"
    /\ UNCHANGED <<db_tables, transactions, risk_rules, high_frequency_accounts,
                   account_daily_counts, account_avg_activity, export_file, result,
                   calls_left, completed>>
    /\ UNCHANGED <<error, db_file, flowVars>>
    /\ UNCHANGED <<outVars, fpVars>>

\* apply_risk_rules, second execute: the UPDATE of rule 2
ApplyRule2 ==
    /\ pc = "rule_2"
    /\ LET hit == {i \in Indices(risk_scores) : OddHours(risk_scores[i])}
       IN risk_scores' = AddWeight(risk_scores, hit, RiskWeight(risk_rules, 2))
    /\ pc' = "rule_3"
    /\ UNCHANGED <<db_tables, transactions, risk_rules, tempVars, export_file, result,
                   calls_left, completed>>
    /\ UNCHANGED <<error, db_file, flowVars>>
    /\ UNCHANGED <<outVars, fpVars>>

\* apply_risk_rules, third execute: CREATE OR REPLACE TEMP TABLE
\* high_frequency_accounts, then the UPDATE of rule 3
ApplyRule3 ==
    /\ pc = "rule_3"
    /\ LET hfa == HighFrequencyAccountsOf(transactions)
           hit == {i \in Indices(risk_scores) : HighFrequency(risk_scores[i], hfa)}
       IN /\ high_frequency_accounts' = hfa
          /\ risk_scores' = AddWeight(risk_scores, hit, RiskWeight(risk_rules, 3))
    /\ temp_tables' = temp_tables \cup {"high_frequency_accounts"}
    /\ pc' = "rule_4"
    /\ UNCHANGED <<db_tables, transactions, risk_rules, amount_stats,
                   account_daily_counts, account_avg_activity, export_file, result,
                   calls_left, completed>>
    /\ UNCHANGED <<error, db_file, flowVars>>
    /\ UNCHANGED <<outVars, fpVars>>

\* apply_risk_rules, fourth execute: the UPDATE of rule 4
ApplyRule4 ==
    /\ pc = "rule_4"
    /\ LET popular == PopularCategories(transactions)
           hit == {i \in Indices(risk_scores) : UnusualMerchant(risk_scores[i], popular)}
       IN risk_scores' = AddWeight(risk_scores, hit, RiskWeight(risk_rules, 4))
    /\ pc' = "rule_5"
    /\ UNCHANGED <<db_tables, transactions, risk_rules, tempVars, export_file, result,
                   calls_left, completed>>
    /\ UNCHANGED <<error, db_file, flowVars>>
    /\ UNCHANGED <<outVars, fpVars>>

\* apply_risk_rules, fifth execute: CREATE OR REPLACE TEMP TABLE account_daily_counts
\* and account_avg_activity, then the UPDATE of rule 5
ApplyRule5 ==
    /\ pc = "rule_5"
    /\ LET adc == AccountDailyCountsOf(transactions)
           aaa == AccountAvgActivityOf(adc)
           hit == {i \in Indices(risk_scores) : AccountVelocity(risk_scores[i], adc, aaa)}
       IN /\ account_daily_counts' = adc
          /\ account_avg_activity' = aaa
          /\ risk_scores' = AddWeight(risk_scores, hit, RiskWeight(risk_rules, 5))
    /\ temp_tables' = temp_tables \cup {"account_daily_counts", "account_avg_activity"}
    /\ pc' = "risk_level"
    /\ UNCHANGED <<db_tables, transactions, risk_rules, amount_stats,
                   high_frequency_accounts, export_file, result, calls_left, completed>>
    /\ UNCHANGED <<error, db_file, flowVars>>
    /\ UNCHANGED <<outVars, fpVars>>

\* apply_risk_rules, last execute: UPDATE risk_scores SET risk_level = CASE ... END
UpdateRiskLevel ==
    /\ pc = "risk_level"
    /\ risk_scores' = WithRiskLevels(risk_scores)
    /\ completed' = Append(completed, risk_scores')
    /\ pc' = "get_risk_summary"
    /\ UNCHANGED <<db_tables, transactions, risk_rules, tempVars, export_file, result, calls_left>>
    /\ UNCHANGED <<error, db_file, flowVars>>
    /\ UNCHANGED <<outVars, fpVars>>

\* risk_assessor.get_risk_summary(): the frame is printed and dropped
GetRiskSummary ==
    /\ pc = "get_risk_summary"
    /\ "risk_scores" \in db_tables
    /\ pc' = "get_high_risk_transactions"
    /\ UNCHANGED <<dbVars, tempVars, export_file, result, calls_left, completed>>
    /\ UNCHANGED <<error, db_file, flowVars>>
    /\ UNCHANGED <<outVars, fpVars>>

\* risk_assessor.get_high_risk_transactions(): the frame is printed and dropped
GetHighRiskTransactions ==
    /\ pc = "get_high_risk_transactions"
    /\ "risk_scores" \in db_tables
    /\ pc' = "export_to_csv"
    /\ UNCHANGED <<dbVars, tempVars, export_file, result, calls_left, completed>>
    /\ UNCHANGED <<error, db_file, flowVars>>
    /\ UNCHANGED <<outVars, fpVars>>

\* risk_assessor.export_to_csv(export_path): SELECT * FROM risk_scores ORDER BY
\* risk_score DESC, written to the file. The query leaves the order of rows of
\* equal risk_score open; the file is kept as the set of its rows.
ExportToCsv ==
    /\ pc = "export_to_csv"
    /\ "risk_scores" \in db_tables
    /\ export_file' = {risk_scores[i] : i \in Indices(risk_scores)}
    /\ pc' = "close"
    /\ UNCHANGED <<dbVars, tempVars, result, calls_left, completed>>
    /\ UNCHANGED <<error, db_file, flowVars>>
    /\ UNCHANGED <<outVars, fpVars>>

\* conn.close(): the temporary tables go with the connection
CloseConnection ==
    /\ temp_tables' = {}
    /\ amount_stats' = {}
    /\ high_frequency_accounts' = {}
    /\ account_daily_counts' = {}
    /\ account_avg_activity' = {}

\* risk_assessor.close(); return True
ReturnTrue ==
    /\ pc = "close"
    /\ CloseConnection
    /\ result' = "True"
    /\ pc' = "start"
    /\ UNCHANGED <<dbVars, export_file, calls_left, completed>>
    /\ UNCHANGED <<error, db_file, flowVars>>
    /\ UNCHANGED <<outVars, fpVars>>

TryBlock ==
    {"create_risk_scores", "create_risk_rules", "rule_1", "rule_2", "rule_3",
     "rule_4", "rule_5", "risk_level", "get_risk_summary",
     "get_high_risk_transactions", "export_to_csv"}

\* Mutant of ReturnFalse: the handler undoes the scoring, leaving risk_scores as
\* create_risk_tables built it
ReturnFalse_RollsBack ==
    /\ pc \in TryBlock
    /\ CloseConnection
    /\ result' = "False"
    /\ pc' = "start"
    /\ risk_scores' = IF "risk_scores" \in db_tables
                       THEN InitialRiskScores(transactions) ELSE risk_scores
    /\ UNCHANGED <<db_tables, transactions, risk_rules, export_file, calls_left, completed>>
    /\ error' = pc
    /\ UNCHANGED <<db_file, flowVars>>
    /\ UNCHANGED <<outVars, fpVars>>

\* except Exception: the statement at pc raises (the database engine or the file
\* system fails it); every statement is committed on its own, so what the earlier
\* statements wrote stays in the database file. close(); return False
ReturnFalse ==
    /\ pc \in TryBlock
    /\ CloseConnection
    /\ result' = "False"
    /\ pc' = "start"
    /\ UNCHANGED <<dbVars, export_file, calls_left, completed>>
    /\ error' = pc
    /\ UNCHANGED <<db_file, flowVars>>
    /\ UNCHANGED <<outVars, fpVars>>

Next ==
    \/ RiskAssessorInit
    \/ CreateRiskScores
    \/ CreateRiskRules
    \/ ApplyRule1
    \/ ApplyRule2
    \/ ApplyRule3
    \/ ApplyRule4
    \/ ApplyRule5
    \/ UpdateRiskLevel
    \/ GetRiskSummary
    \/ GetHighRiskTransactions
    \/ ExportToCsv
    \/ ReturnTrue
    \/ ReturnFalse

Spec == Init /\ [][Next]_vars

\* The caller calls assess_transaction_risk MaxRuns times on the same database file
InitRerun == InitWith(MixedTables, MaxRuns)

SpecRerun == InitRerun /\ [][Next]_vars

\* ------------------------------------------------------------------------
\* One RiskAssessor whose methods the caller calls itself: create_risk_tables and
\* apply_risk_rules, then up to MaxMethodCalls more calls of either on the same
\* connection, which keeps its temporary tables
\* ------------------------------------------------------------------------

\* calls that follow the first create_risk_tables and apply_risk_rules
MaxMethodCalls == 2

\* A method has returned or raised and the caller may call the next
BetweenCalls == {"get_risk_summary", "raised"}

\* risk_assessor.apply_risk_rules() on the open connection
CallApplyRiskRules ==
    /\ pc \in BetweenCalls
    /\ calls_left > 0
    /\ calls_left' = calls_left - 1
    /\ pc' = "rule_1"
    /\ error' = "none"
    /\ UNCHANGED <<dbVars, tempVars, export_file, result, completed>>
    /\ UNCHANGED <<db_file, flowVars>>
    /\ UNCHANGED <<outVars, fpVars>>

\* risk_assessor.create_risk_tables() on the open connection, followed by
\* apply_risk_rules()
CallCreateRiskTables ==
    /\ pc \in BetweenCalls
    /\ calls_left > 0
    /\ calls_left' = calls_left - 1
    /\ pc' = "create_risk_scores"
    /\ error' = "none"
    /\ UNCHANGED <<dbVars, tempVars, export_file, result, completed>>
    /\ UNCHANGED <<db_file, flowVars>>
    /\ UNCHANGED <<outVars, fpVars>>

\* apply_risk_rules, first execute, on a connection that has amount_stats: CREATE
\* TEMP TABLE amount_stats raises, the UPDATE of rule 1 that follows it in the
\* same string is not run, and the exception leaves the method
ApplyRule1Raises ==
    /\ pc = "rule_1"
    /\ "amount_stats" \in temp_tables
    /\ error' = "rule_1"
    /\ pc' = "raised"
    /\ UNCHANGED <<dbVars, tempVars, export_file, result, calls_left, completed>>
    /\ UNCHANGED <<db_file, flowVars>>
    /\ UNCHANGED <<outVars, fpVars>>

InitOneConnection == InitWith(MixedTables, 1 + MaxMethodCalls)

NextOneConnection ==
    \/ RiskAssessorInit
    \/ CreateRiskScores
    \/ CreateRiskRules
    \/ ApplyRule1
    \/ ApplyRule1Raises
    \/ ApplyRule2
    \/ ApplyRule3
    \/ ApplyRule4
    \/ ApplyRule5
    \/ UpdateRiskLevel
    \/ CallApplyRiskRules
    \/ CallCreateRiskTables

SpecOneConnection == InitOneConnection /\ [][NextOneConnection]_vars

\* ------------------------------------------------------------------------
\* Inputs for rule 3: tables of up to MaxTx rows of accounts A and B at moments
\* around minute boundaries; nothing else differs between the rows
\* ------------------------------------------------------------------------

\* rows of a timing table
MaxTx == 4

\* Seconds after 02:00:00 of day 0: 0:00, 0:59, 5:00, 9:00, 10:00, 20:00
TimeOffsets == <<0, 59, 5 * SECONDS_PER_MINUTE, 9 * SECONDS_PER_MINUTE,
                 10 * SECONDS_PER_MINUTE, 20 * SECONDS_PER_MINUTE>>

TimingRow(id, k) ==
    MakeRow(id,
            IF k <= Len(TimeOffsets) THEN "A" ELSE "B",
            2 * SECONDS_PER_HOUR + TimeOffsets[((k - 1) % Len(TimeOffsets)) + 1],
            "deposit", 1, "retail")

\* The nondecreasing sequences of n numbers in 1..k: one per multiset
Multisets(n, k) ==
    {f \in [1..n -> 1..k] : \A i \in 1..(n - 1) : f[i] <= f[i + 1]}

TimingTables ==
    UNION {{[i \in 1..n |-> TimingRow(i, f[i])] : f \in Multisets(n, 2 * Len(TimeOffsets))}
             : n \in 0..MaxTx}

InitTiming == InitWith(TimingTables, 1)

SpecTiming == InitTiming /\ [][Next]_vars

\* ------------------------------------------------------------------------
\* Inputs for rule 4: tables of one account with one transaction a day, of
\* the categories retail, N/A and suspicious in any numbers up to the bound
\* ------------------------------------------------------------------------

\* rows of one merchant category
MaxCategoryRows == 11

MerchantTable(nRetail, nNone, nSuspicious) ==
    [i \in 1..(nRetail + nNone + nSuspicious) |->
        MakeRow(i, "M", i * SECONDS_PER_DAY + 12 * SECONDS_PER_HOUR, "payment", 1,
                IF i <= nRetail THEN "retail"
                ELSE IF i <= nRetail + nNone THEN "N/A"
                ELSE "suspicious")]

MerchantTables ==
    {MerchantTable(a, b, c) : a \in 0..MaxCategoryRows, b \in 0..MaxCategoryRows,
                              c \in {0, 1, MaxCategoryRows}}

InitMerchant == InitWith(MerchantTables, 1)

SpecMerchant == InitMerchant /\ [][Next]_vars

\* ------------------------------------------------------------------------
\* Inputs for rules 1 and 5: account D makes the same number of withdrawals of
\* the same amount on each of its days; account E makes one deposit of amount 1
\* on each of its quiet days and, the day after, several deposits of which the
\* first has its own amount
\* ------------------------------------------------------------------------

\* days of account D
MaxSameDays == 3
\* withdrawals of account D a day
MaxPerDay == 3
\* quiet days of account E
MaxQuietDays == 5
\* deposits of account E on its last day
MaxBusy == 2

\* amounts of the withdrawals and of the deposit that stands out
StatsAmounts == {1, 9, 46}

StatsTable(k, c, v, n, y, x) ==
    [i \in 1..(k * c) |->
        MakeRow(i, "D",
                (1 + (i - 1) \div c) * SECONDS_PER_DAY
                  + (12 + ((i - 1) % c)) * SECONDS_PER_HOUR,
                "withdrawal", v, "retail")]
    \o [j \in 1..n |->
          MakeRow(k * c + j, "E", j * SECONDS_PER_DAY + 12 * SECONDS_PER_HOUR,
                  "deposit", 1, "retail")]
    \o [j \in 1..y |->
          MakeRow(k * c + n + j, "E",
                  (n + 1) * SECONDS_PER_DAY + (11 + j) * SECONDS_PER_HOUR,
                  "deposit", IF j = 1 THEN x ELSE 1, "retail")]

StatsTables ==
    {StatsTable(k, c, v, n, y, x) :
        k \in 1..MaxSameDays, c \in 1..MaxPerDay, v \in StatsAmounts,
        n \in 0..MaxQuietDays, y \in 1..MaxBusy, x \in StatsAmounts}

InitStats == InitWith(StatsTables, 1)

SpecStats == InitStats /\ [][Next]_vars

\* ------------------------------------------------------------------------
\* The classification alone: the UPDATE of risk_level applied to a risk_scores
\* table of one row whose risk_score is any number of hundredths
\* ------------------------------------------------------------------------

\* the largest risk_score handed to the classification, in hundredths
MaxScoreInput == 220

ScoreTable(score) ==
    [i \in {1} |->
        [InitialRiskScores(<<MakeRow(1, "A", 0, "deposit", 1, "retail")>>)[1]
            EXCEPT !.risk_score = score]]

InitClassify ==
    /\ \E score \in 0..MaxScoreInput : risk_scores = ScoreTable(score)
    /\ transactions = <<MakeRow(1, "A", 0, "deposit", 1, "retail")>>
    /\ db_tables = {"transactions", "risk_scores", "risk_rules"}
    /\ risk_rules = RiskRulesRows
    /\ temp_tables = {}
    /\ amount_stats = {}
    /\ high_frequency_accounts = {}
    /\ account_daily_counts = {}
    /\ account_avg_activity = {}
    /\ export_file = {}
    /\ pc = "risk_level"
    /\ result = "none"
    /\ calls_left = 0
    /\ completed = <<>>
    /\ error = "none"
    /\ db_file = TRUE
    /\ NoFlow
    /\ NoCalls
    /\ NoFraudPipeline

NextClassify == UpdateRiskLevel

SpecClassify == InitClassify /\ [][NextClassify]_vars

\* ------------------------------------------------------------------------
\* fraud_analytics_pipeline (main.py)
\* ------------------------------------------------------------------------

ALL_STEPS == {"generate", "process", "assess", "visualize", "report"}

\* what assess_transaction_risk owns besides the tables of the database file
assessVars == <<risk_scores, risk_rules, tempVars, export_file, pc, result, completed, error>>

\* CSV files: a deposit of account A at midnight or at 02:00 without a merchant
\* category, a payment of account B at noon and, in some, a second line with the
\* transaction_id of the first
PipelineCsvs ==
    {<<MakeRow(1, "A", h * SECONDS_PER_HOUR, "deposit", 1, Null),
       MakeRow(2, "B", 12 * SECONDS_PER_HOUR, "payment", 1, "retail")>>
     \o (IF dup THEN <<MakeRow(1, "A", h * SECONDS_PER_HOUR, "deposit", 9, Null)>>
         ELSE <<>>)
       : h \in {0, 2}, dup \in BOOLEAN}

\* generate_transaction_data writes a line per transaction, each with its own uuid4
GeneratedCsvs ==
    {c \in PipelineCsvs :
        \A i, j \in Indices(c) : c[i].transaction_id = c[j].transaction_id => i = j}

RECURSIVE RowsAt(_, _)
\* The rows of df at the positions K, in the order of df
RowsAt(df, K) ==
    IF K = {} THEN <<>>
    ELSE LET m == CHOOSE k \in K : \A l \in K : l <= k
         IN Append(RowsAt(df, K \ {m}), df[m])

RECURSIVE KeptPositions(_, _)
\* df.unique(subset=["transaction_id"]): the sets of positions of df that hold
\* one row, any one, of each transaction_id of ids
KeptPositions(df, ids) ==
    IF ids = {} THEN {{}}
    ELSE LET d == CHOOSE x \in ids : TRUE
         IN {K \cup {p} : K \in KeptPositions(df, ids \ {d}),
                           p \in {i \in Indices(df) : df[i].transaction_id = d}}

\* Mutant of CleanData: the missing merchant_category is left missing
CleanData_NoFill(df) ==
    LET ids == {df[i].transaction_id : i \in Indices(df)}
    IN {RowsAt(df, K) : K \in KeptPositions(df, ids)}

\* Mutant of CleanData: no df.unique, every line of the file is kept
CleanData_KeepDuplicates(df) ==
    {[i \in Indices(df) |->
         [df[i] EXCEPT !.merchant_category = IF @ = Null THEN "N/A" ELSE @]]}

\* clean_data: df.unique(subset=["transaction_id"]) keeps any one row of each
\* transaction_id (the order of the rows it returns is open too; no query of the
\* rule engine depends on it and the rows stay in the order of the file), then
\* a missing merchant_category becomes 'N/A'. The result is one of this set.
CleanData(df) ==
    LET ids == {df[i].transaction_id : i \in Indices(df)}
        filled == [i \in Indices(df) |->
                     [df[i] EXCEPT !.merchant_category = IF @ = Null THEN "N/A" ELSE @]]
    IN {RowsAt(filled, K) : K \in KeptPositions(df, ids)}

\* transactions tables an earlier process step left in the database file
PipelineTables == UNION {CleanData(c) : c \in GeneratedCsvs}

\* ------------------------------------------------------------------------
\* Inputs for the transactions without a merchant: files of deposits, which the
\* generator writes without merchant_category, and of retail payments, one
\* transaction a day; process_transaction_data cleaned the file and loaded it
\* ------------------------------------------------------------------------

\* deposits of the file
MaxNoMerchantRows == 12
\* payments of the file
MaxRetailRows == 11

NoMerchantCsv(nNone, nRetail) ==
    [i \in 1..(nNone + nRetail) |->
        MakeRow(i, "M", i * SECONDS_PER_DAY + 12 * SECONDS_PER_HOUR,
                IF i <= nNone THEN "deposit" ELSE "payment", 1,
                IF i <= nNone THEN Null ELSE "retail")]

NoMerchantCsvs ==
    {NoMerchantCsv(a, b) : a \in 0..MaxNoMerchantRows, b \in 0..MaxRetailRows}

\* The file is still on disk; the database holds what clean_data made of it
InitNoMerchant ==
    /\ \E c \in NoMerchantCsvs :
          /\ csv_file = [exists |-> TRUE, rows |-> c]
          /\ transactions \in CleanData(c)
    /\ db_tables = {"transactions"}
    /\ risk_scores = <<>>
    /\ risk_rules = {}
    /\ temp_tables = {}
    /\ amount_stats = {}
    /\ high_frequency_accounts = {}
    /\ account_daily_counts = {}
    /\ account_avg_activity = {}
    /\ export_file = {}
    /\ pc = "start"
    /\ result = "none"
    /\ calls_left = 1
    /\ completed = <<>>
    /\ error = "none"
    /\ db_file = TRUE
    /\ steps = {}
    /\ flow_pc = "idle"
    /\ data_generated = TRUE
    /\ data_processed = TRUE
    /\ risk_assessed = FALSE
    /\ viz_read = [invoked |-> FALSE, found |-> FALSE, risk_scores |-> <<>>]
    /\ report_written = FALSE
    /\ NoCalls
    /\ NoFraudPipeline

SpecNoMerchant == InitNoMerchant /\ [][Next]_vars

InitPipeline ==
    /\ steps \in SUBSET ALL_STEPS
    /\ csv_file \in {[exists |-> FALSE, rows |-> <<>>]}
                     \cup {[exists |-> TRUE, rows |-> c] : c \in PipelineCsvs}
    /\ \/ db_file = FALSE /\ db_tables = {} /\ transactions = <<>>
       \/ db_file = TRUE /\ db_tables = {} /\ transactions = <<>>
       \/ db_file = TRUE /\ db_tables = {"transactions"} /\ transactions \in PipelineTables
    /\ risk_scores = <<>>
    /\ risk_rules = {}
    /\ temp_tables = {}
    /\ amount_stats = {}
    /\ high_frequency_accounts = {}
    /\ account_daily_counts = {}
    /\ account_avg_activity = {}
    /\ export_file = {}
    /\ pc = "start"
    /\ result = "none"
    /\ calls_left = 0
    /\ completed = <<>>
    /\ error = "none"
    /\ flow_pc = "generate"
    /\ data_generated = FALSE
    /\ data_processed = FALSE
    /\ risk_assessed = FALSE
    /\ viz_read = [invoked |-> FALSE, found |-> FALSE, risk_scores |-> <<>>]
    /\ report_written = FALSE
    /\ NoCalls
    /\ NoFraudPipeline

\* if "generate" in steps: generate_data_task(...) else: os.path.exists(csv_path)
GenerateStep ==
    /\ flow_pc = "generate"
    /\ IF "generate" \in steps
       THEN /\ \E c \in GeneratedCsvs : csv_file' = [exists |-> TRUE, rows |-> c]
            /\ data_generated' = TRUE
       ELSE /\ data_generated' = csv_file.exists
            /\ UNCHANGED csv_file
    /\ flow_pc' = "process"
    /\ UNCHANGED <<dbVars, assessVars, calls_left, db_file, steps, data_processed,
                   risk_assessed, viz_read, report_written>>
    /\ UNCHANGED <<outVars, fpVars>>

\* Mutant of ProcessStepLoads: CREATE TABLE IF NOT EXISTS without the DROP TABLE
ProcessStepLoads_IfNotExists ==
    /\ flow_pc = "process"
    /\ "process" \in steps /\ data_generated
    /\ db_file' = TRUE
    /\ IF "transactions" \in db_tables
       THEN UNCHANGED transactions
       ELSE \E t \in CleanData(csv_file.rows) : transactions' = t
    /\ db_tables' = db_tables \cup {"transactions"}
    /\ data_processed' = TRUE
    /\ flow_pc' = "assess"
    /\ UNCHANGED <<assessVars, calls_left, csv_file, steps, data_generated,
                   risk_assessed, viz_read, report_written>>
    /\ UNCHANGED <<outVars, fpVars>>

\* if "process" in steps and data_generated: process_data_task(...) returns True:
\* DROP TABLE IF EXISTS transactions; CREATE TABLE transactions AS the cleaned frame
ProcessStepLoads ==
    /\ flow_pc = "process"
    /\ "process" \in steps /\ data_generated
    /\ db_file' = TRUE
    /\ \E t \in CleanData(csv_file.rows) : transactions' = t
    /\ db_tables' = db_tables \cup {"transactions"}
    /\ data_processed' = TRUE
    /\ flow_pc' = "assess"
    /\ UNCHANGED <<assessVars, calls_left, csv_file, steps, data_generated,
                   risk_assessed, viz_read, report_written>>
    /\ UNCHANGED <<outVars, fpVars>>

\* process_data_task(...) returns False: a statement of process_transaction_data
\* raised, before or after the DROP TABLE of load_to_duckdb
ProcessStepFails ==
    /\ flow_pc = "process"
    /\ "process" \in steps /\ data_generated
    /\ db_file' = TRUE
    /\ \E dropped \in BOOLEAN :
          /\ db_tables' = IF dropped THEN db_tables \ {"transactions"} ELSE db_tables
          /\ transactions' = IF dropped THEN <<>> ELSE transactions
    /\ data_processed' = FALSE
    /\ flow_pc' = "assess"
    /\ UNCHANGED <<assessVars, calls_left, csv_file, steps, data_generated,
                   risk_assessed, viz_read, report_written>>
    /\ UNCHANGED <<outVars, fpVars>>

\* elif "process" not in steps: os.path.exists(db_path); otherwise nothing
ProcessStepSkipped ==
    /\ flow_pc = "process"
    /\ ~("process" \in steps /\ data_generated)
    /\ data_processed' = IF "process" \notin steps THEN db_file ELSE data_processed
    /\ flow_pc' = "assess"
    /\ UNCHANGED <<dbVars, assessVars, calls_left, db_file, csv_file, steps,
                   data_generated, risk_assessed, viz_read, report_written>>
    /\ UNCHANGED <<outVars, fpVars>>

\* Mutant of AssessStep: the assess step does not look at data_processed
AssessStep_Unconditional ==
    /\ flow_pc = "assess"
    /\ IF "assess" \in steps
       THEN /\ calls_left' = 1
            /\ flow_pc' = "assess_risk_task"
            /\ UNCHANGED risk_assessed
       ELSE /\ risk_assessed' = TRUE
            /\ flow_pc' = "visualize"
            /\ UNCHANGED calls_left
    /\ UNCHANGED <<dbVars, assessVars, db_file, csv_file, steps, data_generated,
                   data_processed, viz_read, report_written>>
    /\ UNCHANGED <<outVars, fpVars>>

\* if "assess" in steps and data_processed: assess_risk_task(...) is called;
\* elif "assess" not in steps: risk_assessed = True
AssessStep ==
    /\ flow_pc = "assess"
    /\ IF "assess" \in steps /\ data_processed
       THEN /\ calls_left' = 1
            /\ flow_pc' = "assess_risk_task"
            /\ UNCHANGED risk_assessed
       ELSE /\ risk_assessed' = IF "assess" \notin steps THEN TRUE ELSE risk_assessed
            /\ flow_pc' = "visualize"
            /\ UNCHANGED calls_left
    /\ UNCHANGED <<dbVars, assessVars, db_file, csv_file, steps, data_generated,
                   data_processed, viz_read, report_written>>
    /\ UNCHANGED <<outVars, fpVars>>

\* assess_success = assess_risk_task(...); risk_assessed = assess_success
AssessTaskReturns ==
    /\ flow_pc = "assess_risk_task"
    /\ pc = "start" /\ calls_left = 0 /\ result \in {"True", "False"}
    /\ risk_assessed' = (result = "True")
    /\ flow_pc' = "visualize"
    /\ UNCHANGED <<dbVars, assessVars, calls_left, db_file, csv_file, steps,
                   data_generated, data_processed, viz_read, report_written>>
    /\ UNCHANGED <<outVars, fpVars>>

\* if "visualize" in steps and data_processed: generate_visualizations(...), whose
\* second and fourth chart query risk_scores, unless an earlier chart raised (ok)
VisualizeStep ==
    /\ flow_pc = "visualize"
    /\ IF "visualize" \in steps /\ data_processed
       THEN \E ok \in BOOLEAN :
              LET found == /\ ok
                           /\ "transactions" \in db_tables
                           /\ "risk_scores" \in db_tables
              IN viz_read' = [invoked |-> TRUE, found |-> found,
                              risk_scores |-> IF found THEN risk_scores ELSE <<>>]
       ELSE UNCHANGED viz_read
    /\ flow_pc' = "report"
    /\ UNCHANGED <<dbVars, assessVars, calls_left, db_file, csv_file, steps,
                   data_generated, data_processed, risk_assessed, report_written>>
    /\ UNCHANGED <<outVars, fpVars>>

\* if "report" in steps: generate_report_task(output_dir)
ReportStep ==
    /\ flow_pc = "report"
    /\ report_written' = (report_written \/ "report" \in steps)
    /\ flow_pc' = "done"
    /\ UNCHANGED <<dbVars, assessVars, calls_left, db_file, csv_file, steps,
                   data_generated, data_processed, risk_assessed, viz_read>>
    /\ UNCHANGED <<outVars, fpVars>>

\* The step at flow_pc runs its task
StepRuns ==
    \/ flow_pc = "generate" /\ "generate" \in steps
    \/ flow_pc = "process" /\ "process" \in steps /\ data_generated
    \/ flow_pc = "assess" /\ "assess" \in steps /\ data_processed
    \/ flow_pc = "visualize" /\ "visualize" \in steps /\ data_processed
    \/ flow_pc = "report" /\ "report" \in steps

\* except Exception as e: log_error(...); raise -- the task's exception ends the flow
TaskRaises ==
    /\ StepRuns
    /\ flow_pc' = "failed"
    /\ UNCHANGED <<dbVars, assessVars, calls_left, db_file, csv_file, steps,
                   data_generated, data_processed, risk_assessed, viz_read,
                   report_written>>
    /\ UNCHANGED <<outVars, fpVars>>

NextPipeline ==
    \/ Next
    \/ GenerateStep
    \/ ProcessStepLoads
    \/ ProcessStepFails
    \/ ProcessStepSkipped
    \/ AssessStep
    \/ AssessTaskReturns
    \/ VisualizeStep
    \/ ReportStep
    \/ TaskRaises

SpecPipeline == InitPipeline /\ [][NextPipeline]_vars

\* python src/main.py once more, with the same arguments, on the files the
\* earlier runs left
MainAgain ==
    /\ flow_pc \in {"done", "failed"}
    /\ Len(completed) < MaxRuns
    /\ flow_pc' = "generate"
    /\ data_generated' = FALSE
    /\ data_processed' = FALSE
    /\ risk_assessed' = FALSE
    /\ viz_read' = [invoked |-> FALSE, found |-> FALSE, risk_scores |-> <<>>]
    /\ UNCHANGED <<dbVars, assessVars, calls_left, db_file, csv_file, steps,
                   report_written>>
    /\ UNCHANGED <<outVars, fpVars>>

NextRebuild ==
    \/ NextPipeline
    \/ MainAgain

SpecRebuild == InitPipeline /\ [][NextRebuild]_vars

\* ------------------------------------------------------------------------
\* The second pipeline: src/fraud_pipeline (Prefect flow over DuckDB)
\* ------------------------------------------------------------------------

FP_LARGE_WITHDRAWAL == 2000
FP_LARGE_TRANSFER == 3000
FP_LARGE_PAYMENT == 5000
FP_ODD_HOUR_BEFORE == 4
FP_RAPID_COUNT == 3
FP_WEIGHT_LARGE_AMOUNT == 30
FP_WEIGHT_ODD_HOURS == 25
FP_WEIGHT_SUSPICIOUS_MERCHANT == 40
FP_WEIGHT_RAPID_TX == 20
FP_LEVEL_HIGH == 50
FP_LEVEL_MEDIUM == 30
FP_REPORT_LIMIT == 10

\* The merchant codes of the model that match LIKE 'SUSPICIOUS%'
SUSPICIOUS_CODES == {"SUSPICIOUS-1"}

FpRow(id, acct, ts, ty, amt, merchant, recipient, flagged) ==
    [transaction_id |-> id, timestamp |-> ts, account_number |-> acct,
     transaction_type |-> ty, amount |-> amt, merchant_code |-> merchant,
     recipient_account |-> recipient, is_flagged |-> flagged]

\* CREATE OR REPLACE TABLE enriched_transactions AS SELECT ... FROM raw_transactions
EnrichedOf(t) ==
    [i \in Indices(t) |->
        [transaction_id |-> t[i].transaction_id,
         timestamp |-> t[i].timestamp,
         hour |-> HourOf(t[i].timestamp),
         account_number |-> t[i].account_number,
         transaction_type |-> t[i].transaction_type,
         amount |-> t[i].amount,
         merchant_code |->
             IF t[i].transaction_type = "PAYMENT" /\ t[i].merchant_code = Null
             THEN "UNKNOWN"
             ELSE IF t[i].transaction_type # "PAYMENT" THEN "N/A"
             ELSE t[i].merchant_code,
         recipient_account |->
             IF t[i].transaction_type = "TRANSFER" /\ t[i].recipient_account = Null
             THEN "UNKNOWN"
             ELSE IF t[i].transaction_type # "TRANSFER" THEN "N/A"
             ELSE t[i].recipient_account,
         known_fraud |-> t[i].is_flagged]]

\* Rule 1: Large Transaction Amount
LargeAmountFlag(r) ==
    \/ r.transaction_type = "WITHDRAWAL" /\ r.amount > FP_LARGE_WITHDRAWAL
    \/ r.transaction_type = "TRANSFER" /\ r.amount > FP_LARGE_TRANSFER
    \/ r.transaction_type = "PAYMENT" /\ r.amount > FP_LARGE_PAYMENT

\* Rule 2: Odd Hours Activity
OddHoursFlag(r) ==
    r.hour >= 0 /\ r.hour < FP_ODD_HOUR_BEFORE

\* Rule 3: Suspicious Merchant
SuspiciousMerchantFlag(r) ==
    r.merchant_code \in SUSPICIOUS_CODES

\* COUNT(*) OVER (PARTITION BY account_number ORDER BY timestamp
\*                RANGE BETWEEN INTERVAL 1 HOUR PRECEDING AND CURRENT ROW)
TxCount1h(t, i) ==
    Cardinality({j \in Indices(t) :
        /\ t[j].account_number = t[i].account_number
        /\ t[j].timestamp >= t[i].timestamp - SECONDS_PER_HOUR
        /\ t[j].timestamp <= t[i].timestamp})

RapidTxFlag(t, i) ==
    TxCount1h(t, i) >= FP_RAPID_COUNT

FpRiskScore(large, odd, suspicious, rapid) ==
    (IF large THEN FP_WEIGHT_LARGE_AMOUNT ELSE 0)
    + (IF odd THEN FP_WEIGHT_ODD_HOURS ELSE 0)
    + (IF suspicious THEN FP_WEIGHT_SUSPICIOUS_MERCHANT ELSE 0)
    + (IF rapid THEN FP_WEIGHT_RAPID_TX ELSE 0)

\* Mutant of FpRiskLevel: HIGH from the weight of the heaviest single flag on
FpRiskLevel_HighFrom40(score) ==
    IF score >= FP_WEIGHT_SUSPICIOUS_MERCHANT THEN "HIGH"
    ELSE IF score >= FP_LEVEL_MEDIUM THEN "MEDIUM"
    ELSE "LOW"

FpRiskLevel(score) ==
    IF score >= FP_LEVEL_HIGH THEN "HIGH"
    ELSE IF score >= FP_LEVEL_MEDIUM THEN "MEDIUM"
    ELSE "LOW"

\* The table risk_assessment when apply_risk_rules has run over enriched table e
RiskAssessmentOf(e) ==
    [i \in Indices(e) |->
        LET large == LargeAmountFlag(e[i])
            odd == OddHoursFlag(e[i])
            suspicious == SuspiciousMerchantFlag(e[i])
            rapid == RapidTxFlag(e, i)
            score == FpRiskScore(large, odd, suspicious, rapid)
        IN  [transaction_id |-> e[i].transaction_id,
             timestamp |-> e[i].timestamp,
             account_number |-> e[i].account_number,
             transaction_type |-> e[i].transaction_type,
             amount |-> e[i].amount,
             merchant_code |-> e[i].merchant_code,
             recipient_account |-> e[i].recipient_account,
             large_amount_flag |-> large,
             odd_hours_flag |-> odd,
             suspicious_merchant_flag |-> suspicious,
             known_fraud |-> e[i].known_fraud,
             rapid_tx_flag |-> rapid,
             risk_score |-> score,
             risk_level |-> FpRiskLevel(score)]]

\* CASE ... END AS detection_result
DetectionResult(r) ==
    IF r.risk_level = "HIGH" /\ r.known_fraud = TRUE THEN "True Positive"
    ELSE IF r.risk_level # "HIGH" /\ r.known_fraud = TRUE THEN "False Negative"
    ELSE IF r.risk_level = "HIGH" /\ r.known_fraud = FALSE THEN "False Positive"
    ELSE "True Negative"

\* detection_dict.get(name, 0)
DetectionCount(ra, name) ==
    Cardinality({i \in Indices(ra) : DetectionResult(ra[i]) = name})

\* Python's numbers of the metrics, kept exact: <<numerator, denominator>> in
\* lowest terms
RECURSIVE Gcd(_, _)
Gcd(a, b) == IF b = 0 THEN a ELSE Gcd(b, a % b)

Rat(n, d) == <<n \div Gcd(n, d), d \div Gcd(n, d)>>
RatMul(p, q) == Rat(p[1] * q[1], p[2] * q[2])
RatAdd(p, q) == Rat(p[1] * q[2] + q[1] * p[2], p[2] * q[2])
RatDiv(p, q) == Rat(p[1] * q[2], p[2] * q[1])
RatPositive(p) == p[1] > 0

Precision_NoGuard(tp, fp) ==
    IF tp + fp > 0 THEN Rat(tp, tp + fp) ELSE <<1, 1>>

Precision(tp, fp) ==
    IF tp + fp > 0 THEN Rat(tp, tp + fp) ELSE RatZero

Recall(tp, fn) ==
    IF tp + fn > 0 THEN Rat(tp, tp + fn) ELSE RatZero

F1Score(precision, recall) ==
    IF RatPositive(RatAdd(precision, recall))
    THEN RatDiv(RatMul(<<2, 1>>, RatMul(precision, recall)), RatAdd(precision, recall))
    ELSE RatZero

\* SELECT risk_level, COUNT(*) ... GROUP BY risk_level ORDER BY CASE ... END
FpRiskSummary(ra) ==
    LET CountOf(level) == Cardinality({i \in Indices(ra) : ra[i].risk_level = level})
        RowOf(level) == IF CountOf(level) > 0
                        THEN <<[risk_level |-> level, count |-> CountOf(level)]>>
                        ELSE <<>>
    IN  RowOf("HIGH") \o RowOf("MEDIUM") \o RowOf("LOW")

\* The results ORDER BY risk_score DESC LIMIT n can give over the rows S of
\* table t: the order of rows of equal score is left to the engine
TopByScore(t, S, n) ==
    LET k == IF Cardinality(S) < n THEN Cardinality(S) ELSE n
    IN  {[j \in 1..k |-> t[q[j]]] : q \in
            {q \in [1..k -> S] :
                /\ \A a, b \in 1..k : a # b => q[a] # q[b]
                /\ \A a, b \in 1..k : a < b => t[q[a]].risk_score >= t[q[b]].risk_score
                /\ \A a \in 1..k : \A o \in S :
                       (\A b \in 1..k : q[b] # o)
                           => t[o].risk_score <= t[q[a]].risk_score}}

\* What generate_summary_report computes from the tables: the report is written
\* unless the percentage of line 265 divides by zero; the rows of the section
\* "High Risk Transactions" are queried after that line
SummaryReports(tx, ra) ==
    LET total_count == Len(tx)
        fraud_count == Cardinality({i \in Indices(tx) : tx[i].is_flagged = TRUE})
        tp == DetectionCount(ra, "True Positive")
        fn == DetectionCount(ra, "False Negative")
        fp == DetectionCount(ra, "False Positive")
        tn == DetectionCount(ra, "True Negative")
        precision == Precision(tp, fp)
        recall == Recall(tp, fn)
        computed ==
            [status |-> "written", total_count |-> total_count,
             fraud_count |-> fraud_count, risk_summary |-> FpRiskSummary(ra),
             true_positives |-> tp, false_negatives |-> fn, false_positives |-> fp,
             true_negatives |-> tn, precision |-> precision, recall |-> recall,
             f1_score |-> F1Score(precision, recall), high_risk |-> <<>>]
    IN  IF total_count = 0
        THEN {[computed EXCEPT !.status = "ZeroDivisionError"]}
        ELSE {[computed EXCEPT !.high_risk = top] :
                 top \in TopByScore(ra, {i \in Indices(ra) : ra[i].risk_level = "HIGH"},
                                    FP_REPORT_LIMIT)}

\* The first pipeline (src/main.py, src/src) is not run
NoAssessment ==
    /\ transactions = <<>>
    /\ db_tables = {}
    /\ risk_scores = <<>>
    /\ risk_rules = {}
    /\ temp_tables = {}
    /\ amount_stats = {}
    /\ high_frequency_accounts = {}
    /\ account_daily_counts = {}
    /\ account_avg_activity = {}
    /\ export_file = {}
    /\ pc = "start"
    /\ result = "none"
    /\ calls_left = 0
    /\ completed = <<>>
    /\ error = "none"
    /\ db_file = FALSE
    /\ NoFlow
    /\ NoCalls

\* The flow is about to run on a new database file; inputs are the files the
\* generator writes, one for each run of the flow
InitFraudPipelineWith(inputs) ==
    /\ NoAssessment
    /\ fp_pc = "generate"
    /\ fp_inputs \in inputs
    /\ fp_csv = <<>>
    /\ fp_tables = {}
    /\ fp_transactions = <<>>
    /\ enriched_transactions = <<>>
    /\ risk_assessment = <<>>
    /\ risk_report = FpNoReport

\* task_generate_data: generate_transaction_data writes data/transactions.csv
TaskGenerateData ==
    /\ fp_pc = "generate"
    /\ fp_inputs # <<>>
    /\ fp_csv' = Head(fp_inputs)
    /\ fp_inputs' = Tail(fp_inputs)
    /\ fp_pc' = "load"
    /\ UNCHANGED <<fp_tables, fp_transactions, enriched_transactions, risk_assessment,
                   risk_report>>
    /\ UNCHANGED mainVars

\* task_load_data: load_data_to_duckdb(csv_path, db_path), then con.close().
\* CREATE TABLE IF NOT EXISTS transactions AS SELECT * FROM read_csv_auto(?)
TaskLoadData ==
    /\ fp_pc = "load"
    /\ IF "transactions" \in fp_tables
       THEN UNCHANGED <<fp_tables, fp_transactions>>
       ELSE /\ fp_tables' = fp_tables \cup {"transactions"}
            /\ fp_transactions' = fp_csv
    /\ fp_pc' = "transform"
    /\ UNCHANGED <<fp_inputs, fp_csv, enriched_transactions, risk_assessment, risk_report>>
    /\ UNCHANGED mainVars

\* task_risk_analysis, run_risk_analysis: perform_data_transformation(con)
PerformDataTransformation ==
    /\ fp_pc = "transform"
    /\ "transactions" \in fp_tables
    /\ fp_tables' = fp_tables \cup {"raw_transactions", "enriched_transactions"}
    /\ enriched_transactions' = EnrichedOf(fp_transactions)
    /\ fp_pc' = "apply_risk_rules"
    /\ UNCHANGED <<fp_inputs, fp_csv, fp_transactions, risk_assessment, risk_report>>
    /\ UNCHANGED mainVars

\* run_risk_analysis: apply_risk_rules(con), then con.close()
FpApplyRiskRules ==
    /\ fp_pc = "apply_risk_rules"
    /\ "enriched_transactions" \in fp_tables
    /\ fp_tables' = fp_tables \cup {"risk_assessment", "transaction_velocity"}
    /\ risk_assessment' = RiskAssessmentOf(enriched_transactions)
    /\ fp_pc' = "visualize"
    /\ UNCHANGED <<fp_inputs, fp_csv, fp_transactions, enriched_transactions, risk_report>>
    /\ UNCHANGED mainVars

\* task_create_visualizations, create_visualizations: the charts, then
\* generate_summary_report; an exception is raised again and ends the flow
CreateVisualizations ==
    /\ fp_pc = "visualize"
    /\ "transactions" \in fp_tables
    /\ "risk_assessment" \in fp_tables
    /\ risk_report' \in SummaryReports(fp_transactions, risk_assessment)
    /\ fp_pc' = IF risk_report'.status = "written" THEN "done" ELSE "failed"
    /\ UNCHANGED <<fp_inputs, fp_csv, fp_tables, fp_transactions, enriched_transactions,
                   risk_assessment>>
    /\ UNCHANGED mainVars

\* python main.py once more, on the same database file
FraudAnalyticsPipeline ==
    /\ fp_pc \in {"done", "failed"}
    /\ fp_inputs # <<>>
    /\ fp_pc' = "generate"
    /\ UNCHANGED <<fp_inputs, fp_csv, fp_tables, fp_transactions, enriched_transactions,
                   risk_assessment, risk_report>>
    /\ UNCHANGED mainVars

\* One run of the flow
NextFraudPipelineOnce ==
    \/ TaskGenerateData
    \/ TaskLoadData
    \/ PerformDataTransformation
    \/ FpApplyRiskRules
    \/ CreateVisualizations

NextFraudPipeline ==
    \/ NextFraudPipelineOnce
    \/ FraudAnalyticsPipeline

\* rows of one generated file
MaxFpRows == 3

\* The kinds of row of the generated files: all of account X on day 0
FpKinds ==
    <<[transaction_type |-> "WITHDRAWAL", amount |-> 2001, hour |-> 3, minute |-> 0,
       merchant_code |-> Null, recipient_account |-> Null],
      [transaction_type |-> "WITHDRAWAL", amount |-> 2000, hour |-> 4, minute |-> 0,
       merchant_code |-> Null, recipient_account |-> Null],
      [transaction_type |-> "PAYMENT", amount |-> 10, hour |-> 12, minute |-> 0,
       merchant_code |-> "SUSPICIOUS-1", recipient_account |-> Null],
      [transaction_type |-> "PAYMENT", amount |-> 5001, hour |-> 0, minute |-> 30,
       merchant_code |-> "RETAIL-1", recipient_account |-> Null],
      [transaction_type |-> "DEPOSIT", amount |-> 100, hour |-> 3, minute |-> 30,
       merchant_code |-> Null, recipient_account |-> Null],
      [transaction_type |-> "TRANSFER", amount |-> 3001, hour |-> 3, minute |-> 59,
       merchant_code |-> Null, recipient_account |-> "ACC-2"]>>

\* the file whose i-th row is of kind kinds[i] and labelled fraudulent iff i \in L
FpTable(kinds, L) ==
    [i \in Indices(kinds) |->
        FpRow(i, "X",
              FpKinds[kinds[i]].hour * SECONDS_PER_HOUR
                  + FpKinds[kinds[i]].minute * SECONDS_PER_MINUTE,
              FpKinds[kinds[i]].transaction_type, FpKinds[kinds[i]].amount,
              FpKinds[kinds[i]].merchant_code, FpKinds[kinds[i]].recipient_account,
              i \in L)]

FpKindLists ==
    UNION {{k \in [1..n -> Indices(FpKinds)] : \A a, b \in 1..n : a < b => k[a] <= k[b]} :
           n \in 0..MaxFpRows}

FpTables ==
    {FpTable(k, L) : k \in FpKindLists, L \in SUBSET (1..MaxFpRows)}

InitFraudPipeline == InitFraudPipelineWith({<<t>> : t \in FpTables})

SpecFraudPipeline == InitFraudPipeline /\ [][NextFraudPipelineOnce]_vars

\* rows of a file, when the flow is run twice on one database file
MaxReloadRows == 1

ReloadTables == {t \in FpTables : Len(t) \in 1..MaxReloadRows}

\* The flow is run twice; the generator writes a file for each run
InitReload == InitFraudPipelineWith({<<first, second>> : first, second \in ReloadTables})

SpecReload == InitReload /\ [][NextFraudPipeline]_vars

\* ------------------------------------------------------------------------
\* The generator's odd_hours_activity scenario
\* ------------------------------------------------------------------------

\* hour=random.randint(0, 4): both ends can be drawn
FP_SCENARIO_HOUR_MAX == 4

\* A fraudulent transaction of the scenario: a withdrawal or a transfer of 100
\* to 2000 whose timestamp is moved to hour:minute of its day
OddHoursActivity(id, ty, amt, hour, minute) ==
    FpRow(id, "X", hour * SECONDS_PER_HOUR + minute * SECONDS_PER_MINUTE, ty, amt,
          Null, IF ty = "TRANSFER" THEN "ACC-2" ELSE Null, TRUE)

OddHoursTables ==
    {<<OddHoursActivity(1, ty, amt, hour, minute)>> :
        ty \in {"WITHDRAWAL", "TRANSFER"}, amt \in {100, 2000},
        hour \in 0..FP_SCENARIO_HOUR_MAX, minute \in {0, 59}}

InitOddHours == InitFraudPipelineWith({<<t>> : t \in OddHoursTables})

SpecOddHours == InitOddHours /\ [][NextFraudPipelineOnce]_vars

\* ------------------------------------------------------------------------
\* Inputs for the detection metrics of the report
\* ------------------------------------------------------------------------

\* rows that score HIGH and are labelled fraudulent, or are not
MaxFlaggedHigh == 2
MaxUnflaggedHigh == 2
\* rows that score LOW and are labelled fraudulent, or are not
MaxFlaggedLow == 2
MaxUnflaggedLow == 6

\* A file of a + b large withdrawals at 03:00 and c + d withdrawals of 2000 at
\* 04:00, of which the first a and the first c are labelled fraudulent
CountTable(a, b, c, d) ==
    FpTable([i \in 1..(a + b + c + d) |-> IF i <= a + b THEN 1 ELSE 2],
            (1..a) \cup ((a + b + 1)..(a + b + c)))

CountTables ==
    {CountTable(a, b, c, d) :
        a \in 0..MaxFlaggedHigh, b \in 0..MaxUnflaggedHigh,
        c \in 0..MaxFlaggedLow, d \in 0..MaxUnflaggedLow}

InitMetrics == InitFraudPipelineWith({<<t>> : t \in CountTables})

SpecMetrics == InitMetrics /\ [][NextFraudPipelineOnce]_vars

\* ------------------------------------------------------------------------
\* get_risk_summary and get_high_risk_transactions, called on a scored database
\* ------------------------------------------------------------------------

\* ROUND(AVG(amount), 2), in hundredths
RoundedAvg(sum, count) == (200 * sum + count) \div (2 * count)

\* Mutant of RiskSummaryOf: the levels in ascending order
RiskSummaryOf_Ascending(rs) ==
    LET RowsOf(level) == {i \in Indices(rs) : rs[i].risk_level = level}
        RowOf(level) ==
            IF RowsOf(level) = {} THEN <<>>
            ELSE <<[risk_level |-> level, transaction_count |-> Cardinality(RowsOf(level))]>>
    IN  RowOf("Low") \o RowOf("Medium") \o RowOf("High") \o RowOf("Very High")

\* SELECT risk_level, COUNT(*), ROUND(AVG(amount), 2), ROUND(SUM(amount), 2)
\* FROM risk_scores GROUP BY risk_level ORDER BY CASE ... END
RiskSummaryOf(rs) ==
    LET RowsOf(level) == {i \in Indices(rs) : rs[i].risk_level = level}
        amounts == [i \in Indices(rs) |-> rs[i].amount]
        RowOf(level) ==
            IF RowsOf(level) = {} THEN <<>>
            ELSE <<[risk_level |-> level,
                    transaction_count |-> Cardinality(RowsOf(level)),
                    avg_amount |-> RoundedAvg(SumOver(amounts, RowsOf(level)),
                                              Cardinality(RowsOf(level))),
                    total_amount |-> 100 * SumOver(amounts, RowsOf(level))]>>
    IN  RowOf("Very High") \o RowOf("High") \o RowOf("Medium") \o RowOf("Low")

\* Mutant of HighRiskRows: Medium rows selected too
HighRiskRows_WithMedium(rs) ==
    {i \in Indices(rs) : rs[i].risk_level \in {"Medium", "High", "Very High"}}

\* WHERE risk_level IN ('High', 'Very High')
HighRiskRows(rs) ==
    {i \in Indices(rs) : rs[i].risk_level \in {"High", "Very High"}}

\* the greatest limit a caller passes
MaxLimit == 3

\* A caller holds a RiskAssessor on the database file that
\* assess_transaction_risk has scored
AssessorOnScored ==
    /\ pc = "start"
    /\ result = "True"
    /\ "risk_scores" \in db_tables

\* risk_assessor.get_risk_summary()
CallGetRiskSummary ==
    /\ AssessorOnScored
    /\ summary_df' = RiskSummaryOf(risk_scores)
    /\ UNCHANGED <<high_risk_df, limit>>
    /\ UNCHANGED <<dbVars, tempVars, export_file, pc, result, calls_left, completed,
                   error, db_file, flowVars, fpVars>>

\* risk_assessor.get_high_risk_transactions(limit=n)
CallGetHighRiskTransactions ==
    /\ AssessorOnScored
    /\ \E n \in 0..MaxLimit :
          /\ limit' = n
          /\ high_risk_df' \in TopByScore(risk_scores, HighRiskRows(risk_scores), n)
    /\ UNCHANGED summary_df
    /\ UNCHANGED <<dbVars, tempVars, export_file, pc, result, calls_left, completed,
                   error, db_file, flowVars, fpVars>>

QueryTables ==
    {MixedTable(p, b, d, n) :
        p \in Probes, b \in {0, MaxBurst}, d \in {0, 1}, n \in {0, MaxPad}}

InitQueries == InitWith(QueryTables, 1)

NextQueries ==
    \/ Next
    \/ CallGetRiskSummary
    \/ CallGetHighRiskTransactions

SpecQueries == InitQueries /\ [][NextQueries]_vars

\* ------------------------------------------------------------------------
\* Inputs that differ in the ground-truth labels only
\* ------------------------------------------------------------------------

\* Table t with the rows at L labelled fraudulent and no other
Relabel(t, L) ==
    [i \in Indices(t) |-> [t[i] EXCEPT !.is_fraud = (i \in L)]]

FpRelabel(t, L) ==
    [i \in Indices(t) |-> [t[i] EXCEPT !.is_flagged = (i \in L)]]

EraseLabels(t) == Relabel(t, {})

FpEraseLabels(t) == FpRelabel(t, {})

LabelledTables ==
    {Relabel(MixedTable(p, b, 0, 0), L) :
        p \in Probes, b \in {0, MaxBurst}, L \in SUBSET (1..(1 + MaxBurst))}

\* Either pipeline is run on a labelled input
InitLabels ==
    \/ InitWith(LabelledTables, 1)
    \/ InitFraudPipeline

NextLabels ==
    \/ Next
    \/ NextFraudPipelineOnce

SpecLabels == InitLabels /\ [][NextLabels]_vars

\* ------------------------------------------------------------------------
\* Properties
\* ------------------------------------------------------------------------

\* apply_risk_rules has run to its end in the current call
Scored ==
    \/ pc \in {"get_risk_summary", "get_high_risk_transactions", "export_to_csv", "close"}
    \/ pc = "start" /\ result = "True"

\* The four aggregates of a transactions table t
ContextOf(t) ==
    LET adc == AccountDailyCountsOf(t)
    IN [stats |-> AmountStatsOf(t),
        hfa |-> HighFrequencyAccountsOf(t),
        popular |-> PopularCategories(t),
        adc |-> adc,
        aaa |-> AccountAvgActivityOf(adc)]

\* Rule k's trigger condition for row r, given the aggregates ctx
Triggers(k, r, ctx) ==
    CASE k = 1 -> HighAmount(r, ctx.stats)
      [] k = 2 -> OddHours(r)
      [] k = 3 -> HighFrequency(r, ctx.hfa)
      [] k = 4 -> UnusualMerchant(r, ctx.popular)
      [] k = 5 -> AccountVelocity(r, ctx.adc, ctx.aaa)

RuleIds == 1..5

\* The sum of the weights of the rules among ks that row r triggers
WeightOfTriggered(r, ks, ctx) ==
    SumOver([k \in RuleIds |->
                IF Triggers(k, r, ctx) THEN RiskWeight(RiskRulesRows, k) ELSE 0], ks)

MaxRiskScore == SumOver([k \in RuleIds |-> RiskWeight(RiskRulesRows, k)], RuleIds)

\* C1: after create_risk_tables and one apply_risk_rules every row's risk_score is
\* the sum of the weights of exactly the rules the row triggers, each counted
\* once, and lies in 0.0 .. 2.2; risk_scores has the rows of transactions.
C1_ScoreIsSumOfTriggeredWeights ==
    Scored =>
        LET ctx == ContextOf(transactions)
        IN /\ Len(risk_scores) = Len(transactions)
           /\ MaxRiskScore = 220
           /\ \A i \in Indices(risk_scores) :
                 /\ risk_scores[i].transaction_id = transactions[i].transaction_id
                 /\ risk_scores[i].risk_score =
                        WeightOfTriggered(transactions[i], RuleIds, ctx)
                 /\ risk_scores[i].risk_score >= 0
                 /\ risk_scores[i].risk_score <= MaxRiskScore

\* A scored table with a row that triggers all five rules and a row that triggers none
C1_Witness ==
    /\ Scored
    /\ LET ctx == ContextOf(transactions)
       IN /\ \E i \in Indices(risk_scores) :
                /\ risk_scores[i].risk_score = 220
                /\ \A k \in RuleIds : Triggers(k, transactions[i], ctx)
          /\ \E j \in Indices(risk_scores) :
                /\ risk_scores[j].risk_score = 0
                /\ \A k \in RuleIds : ~Triggers(k, transactions[j], ctx)

\* C2: apply_risk_rules gives every row exactly one risk_level, fixed by its final
\* risk_score: Very High iff >= 0.8, High iff in [0.6, 0.8), Medium iff in
\* [0.3, 0.6), Low iff < 0.3.
C2_LevelByThresholds ==
    Scored =>
        \A i \in Indices(risk_scores) :
            LET sc == risk_scores[i].risk_score
                lv == risk_scores[i].risk_level
            IN /\ lv \in {"Very High", "High", "Medium", "Low"}
               /\ (lv = "Very High") <=> (sc >= 80)
               /\ (lv = "High") <=> (sc >= 60 /\ sc < 80)
               /\ (lv = "Medium") <=> (sc >= 30 /\ sc < 60)
               /\ (lv = "Low") <=> (sc < 30)

\* A scored table that holds a row at the Very High threshold (0.8), a row at the
\* High threshold (0.6) and a Low row
C2_Witness ==
    /\ Scored
    /\ \E i \in Indices(risk_scores) :
          risk_scores[i].risk_score = 80 /\ risk_scores[i].risk_level = "Very High"
    /\ \E i \in Indices(risk_scores) :
          risk_scores[i].risk_score = 60 /\ risk_scores[i].risk_level = "High"
    /\ \E i \in Indices(risk_scores) : risk_scores[i].risk_level = "Low"

\* The UPDATE of risk_level has run
Classified == pc = "get_risk_summary"

LevelAt(score, level) ==
    \A i \in Indices(risk_scores) :
        risk_scores[i].risk_score = score => risk_scores[i].risk_level = level

Rule3Applied == pc = "rule_4"

AccountsOf(t) == {t[i].account_number : i \in Indices(t)}

\* Account a has exactly three transactions, at t, t + 5 min and t + 9 min
RapidTriple(a) ==
    LET s == SortedOf(transactions, RowsOfAccount(transactions, a))
    IN /\ Len(s) = 3
       /\ s[2] = s[1] + 5 * SECONDS_PER_MINUTE
       /\ s[3] = s[1] + 9 * SECONDS_PER_MINUTE

\* Account a has exactly four transactions, at t, t + 5 min, t + 9 min and t + 10 min
RapidQuadruple(a) ==
    LET s == SortedOf(transactions, RowsOfAccount(transactions, a))
    IN /\ Len(s) = 4
       /\ s[2] = s[1] + 5 * SECONDS_PER_MINUTE
       /\ s[3] = s[1] + 9 * SECONDS_PER_MINUTE
       /\ s[4] = s[1] + 10 * SECONDS_PER_MINUTE

\* Every row of account a has the weights of rules 1 and 2 it triggers plus extra
ScoreAfterRule3(a, extra) ==
    LET ctx == ContextOf(transactions)
    IN \A i \in RowsOfAccount(risk_scores, a) :
          risk_scores[i].risk_score =
              WeightOfTriggered(transactions[i], {1, 2}, ctx) + extra

\* C4 as stated: an account whose only transactions are at t, t+5min and t+9min is
\* put in the high-frequency set and its three transactions get rule 3's weight.
C4_Original_TripleFlagged ==
    Rule3Applied =>
        \A a \in AccountsOf(transactions) :
            RapidTriple(a) =>
                /\ a \in high_frequency_accounts
                /\ ScoreAfterRule3(a, WEIGHT_HIGH_FREQUENCY)

\* C4 amended: such an account has two close pairs, one fewer than rule 3 asks for:
\* it is not put in the high-frequency set and none of its transactions gets rule
\* 3's weight; with a fourth transaction at t+10min it is, and all four get it.
C4_TripleNotFlagged ==
    Rule3Applied =>
        \A a \in AccountsOf(transactions) :
            /\ RapidTriple(a) =>
                  /\ a \notin high_frequency_accounts
                  /\ ScoreAfterRule3(a, 0)
            /\ RapidQuadruple(a) =>
                  /\ a \in high_frequency_accounts
                  /\ ScoreAfterRule3(a, WEIGHT_HIGH_FREQUENCY)

\* Rule 3 has been applied to a table with an account at t, t+5min, t+9min
C4_Witness ==
    /\ Rule3Applied
    /\ \E a \in AccountsOf(transactions) : RapidTriple(a)

\* The close pairs of account a by elapsed time: rows less than 10 minutes after
\* the account's preceding row
ElapsedClosePairs(t, a) ==
    LET s == SortedOf(t, RowsOfAccount(t, a))
    IN Cardinality({k \in 2..Len(s) : s[k] - s[k - 1] < CLOSE_MINUTES * SECONDS_PER_MINUTE})

\* C5 as stated: a row is a close pair exactly when less than 10 minutes have
\* elapsed since the account's preceding row; the account is high-frequency
\* exactly when it has at least 3 such pairs, and then all its rows get rule 3's
\* weight.
C5_ElapsedTimeDecides ==
    Rule3Applied =>
        \A a \in AccountsOf(transactions) :
            /\ (a \in high_frequency_accounts)
                  <=> (ElapsedClosePairs(transactions, a) >= CLOSE_PAIRS_MIN)
            /\ ScoreAfterRule3(a, IF ElapsedClosePairs(transactions, a) >= CLOSE_PAIRS_MIN
                                  THEN WEIGHT_HIGH_FREQUENCY ELSE 0)

\* C10: an account with a single transaction is never in the high-frequency set,
\* and an account with k transactions has at most k-1 close pairs (its first
\* transaction has no predecessor).
C10_FirstRowIsNoPair ==
    Rule3Applied =>
        \A a \in AccountsOf(transactions) :
            LET k == Cardinality(RowsOfAccount(transactions, a))
            IN /\ ClosePairs(transactions, a) <= k - 1
               /\ k = 1 => /\ a \notin high_frequency_accounts
                           /\ ScoreAfterRule3(a, 0)

\* Rule 3 has been applied to a table where one account has a single transaction
\* and the other has three, each less than 10 minutes after the one before
C10_Witness ==
    /\ Rule3Applied
    /\ \E a \in AccountsOf(transactions) :
          Cardinality(RowsOfAccount(transactions, a)) = 1
    /\ \E a \in AccountsOf(transactions) :
          /\ Cardinality(RowsOfAccount(transactions, a)) = 3
          /\ ClosePairs(transactions, a) = 2

\* Rule 4 has been applied and rule 5 has not
Rule4Applied == pc = "rule_5"

CategoryCount(c) == Cardinality(RowsOfCategory(transactions, c))

\* Row i has rule 4's weight and no other
GotRule4Only(i) == risk_scores[i].risk_score = WEIGHT_UNUSUAL_MERCHANT

\* C6 as stated: rule 4 triggers exactly for the rows whose category is
\* 'suspicious' or appears in fewer than 10 rows of transactions.
C6_Original_FewerThan10 ==
    Rule4Applied =>
        \A i \in Indices(risk_scores) :
            LET c == transactions[i].merchant_category
            IN IF c = "suspicious" \/ CategoryCount(c) < 10
               THEN GotRule4Only(i)
               ELSE risk_scores[i].risk_score = 0

\* C6 amended: rule 4 triggers exactly for the rows whose category is 'suspicious'
\* or appears in at most 10 rows of transactions; a category other than
\* 'suspicious' that appears in more than 10 rows never triggers it.
C6_AtMost10 ==
    Rule4Applied =>
        \A i \in Indices(risk_scores) :
            LET c == transactions[i].merchant_category
            IN IF c = "suspicious" \/ CategoryCount(c) <= 10
               THEN GotRule4Only(i)
               ELSE risk_scores[i].risk_score = 0

\* Rule 4 has been applied to a table with a category of exactly 10 rows, one of
\* 11 rows and a suspicious row
C6_Witness ==
    /\ Rule4Applied
    /\ CategoryCount("retail") = 10
    /\ CategoryCount("N/A") = 11
    /\ CategoryCount("suspicious") = 1

\* ------------------------------------------------------------------------
\* Running the scoring again
\* ------------------------------------------------------------------------

DegenerateType(ty) ==
    LET S == {i \in Indices(transactions) : transactions[i].transaction_type = ty}
    IN \/ Cardinality(S) = 1
       \/ \A i, j \in S : transactions[i].amount = transactions[j].amount

\* The days on which the account has a transaction
ActiveDays(a) ==
    {transactions[i].timestamp \div SECONDS_PER_DAY :
        i \in {j \in Indices(transactions) : transactions[j].account_number = a}}

\* The transactions of the account on the day
CountOn(a, d) ==
    Cardinality({i \in Indices(transactions) :
                   /\ transactions[i].account_number = a
                   /\ transactions[i].timestamp \div SECONDS_PER_DAY = d})

\* The account has one active day, or as many transactions on each active day
DegenerateAccount(a) ==
    \/ Cardinality(ActiveDays(a)) = 1
    \/ \A d, e \in ActiveDays(a) : CountOn(a, d) = CountOn(a, e)

\* Rule 1 gave nothing to the transactions of degenerate types (seen right after
\* the UPDATE of rule 1, which is the first to touch risk_score)
NoRule1ForDegenerateTypes ==
    pc = "rule_2" =>
        \A i \in Indices(risk_scores) :
            DegenerateType(risk_scores[i].transaction_type)
                => risk_scores[i].risk_score = 0

\* Rule 5 gave nothing to the transactions of degenerate accounts (seen right
\* after the UPDATE of rule 5: the score is still what rules 1 to 4 gave)
NoRule5ForDegenerateAccounts ==
    pc = "risk_level" =>
        LET ctx == ContextOf(transactions)
        IN \A i \in Indices(risk_scores) :
              DegenerateAccount(risk_scores[i].account_number)
                => risk_scores[i].risk_score
                     = WeightOfTriggered(transactions[i], {1, 2, 3, 4}, ctx)

\* C9: a transaction type with a single transaction or with all amounts equal
\* never triggers rule 1, and an account with one active day or with equal counts
\* on all its active days never triggers rule 5.
C9_DegenerateNeverTriggers ==
    /\ NoRule1ForDegenerateTypes
    /\ NoRule5ForDegenerateAccounts

\* ------------------------------------------------------------------------
\* A failure inside apply_risk_rules
\* ------------------------------------------------------------------------

\* The statements of apply_risk_rules that follow the UPDATE of rule 1
AfterFirstRule == {"rule_2", "rule_3", "rule_4", "rule_5", "risk_level"}

\* risk_scores as a complete scoring of the transactions table leaves it
FullyScored(t) ==
    LET ctx == ContextOf(t)
    IN [i \in Indices(t) |->
          LET score == WeightOfTriggered(t[i], RuleIds, ctx)
          IN [InitialRiskScores(t)[i] EXCEPT !.risk_score = score,
                                            !.risk_level = RiskLevelOf(score)]]

\* Some weight was added to rs, and rs is not the complete scoring
PartlyScored(rs) ==
    /\ \E i \in Indices(rs) : rs[i].risk_score > 0
    /\ rs # FullyScored(transactions)

\* C8: when a statement of apply_risk_rules raised after earlier rules were
\* applied, the database file holds no partly scored risk_scores table and the
\* visualization step of that run has read none.
C8_NoPartialScoresAfterFailure ==
    error \in AfterFirstRule =>
        /\ ~("risk_scores" \in db_tables /\ PartlyScored(risk_scores))
        /\ ~(viz_read.found /\ PartlyScored(viz_read.risk_scores))

\* The fraud_pipeline flow has scored its transactions
FpScored == fp_pc \in {"visualize", "done", "failed"} /\ "risk_assessment" \in fp_tables

\* C11: the ground-truth label (is_fraud, known_fraud) is never consumed by the
\* rule engine: the risk_score and risk_level of every row are those the same
\* input gets with every label erased.
C11_LabelsNeverConsumed ==
    /\ Scored =>
           LET unlabelled == FullyScored(EraseLabels(transactions))
           IN /\ Len(risk_scores) = Len(unlabelled)
              /\ \A i \in Indices(risk_scores) :
                     /\ risk_scores[i].risk_score = unlabelled[i].risk_score
                     /\ risk_scores[i].risk_level = unlabelled[i].risk_level
    /\ FpScored =>
           LET unlabelled == RiskAssessmentOf(EnrichedOf(FpEraseLabels(fp_transactions)))
           IN /\ Len(risk_assessment) = Len(unlabelled)
              /\ \A i \in Indices(risk_assessment) :
                     /\ risk_assessment[i].risk_score = unlabelled[i].risk_score
                     /\ risk_assessment[i].risk_level = unlabelled[i].risk_level

\* Scored rows of which the one labelled fraudulent has the lower score
C11_Witness ==
    /\ Scored
    /\ \E i, j \in Indices(risk_scores) :
           /\ risk_scores[i].is_fraud
           /\ ~risk_scores[j].is_fraud
           /\ risk_scores[i].risk_score < risk_scores[j].risk_score

\* The same in the fraud_pipeline flow
C11_WitnessKnownFraud ==
    /\ FpScored
    /\ \E i, j \in Indices(risk_assessment) :
           /\ risk_assessment[i].known_fraud
           /\ ~risk_assessment[j].known_fraud
           /\ risk_assessment[i].risk_level = "LOW"
           /\ risk_assessment[j].risk_level = "HIGH"

\* The transaction_id column of table t, in row order
IdsOf(t) == [i \in Indices(t) |-> t[i].transaction_id]

\* Table t has one row for each transaction_id of the rows of file, and no other
OneRowPerId(t, file) ==
    /\ {t[i].transaction_id : i \in Indices(t)}
           = {file[i].transaction_id : i \in Indices(file)}
    /\ \A i, j \in Indices(t) : t[i].transaction_id = t[j].transaction_id => i = j

\* The process step of this run has cleaned the file and loaded it
Loaded == "process" \in steps /\ data_processed

\* C12: whatever the CSV file holds, repeated transaction_ids included, the
\* table the process step loads has exactly one row per distinct transaction_id,
\* and risk_scores has the rows of that table, one for one, at every point of
\* create_risk_tables and apply_risk_rules and after them.
C12_OneRowPerTransactionId ==
    /\ Loaded => OneRowPerId(transactions, csv_file.rows)
    /\ "risk_scores" \in db_tables => IdsOf(risk_scores) = IdsOf(transactions)
    /\ (Loaded /\ "risk_scores" \in db_tables) => OneRowPerId(risk_scores, csv_file.rows)

\* A file with a repeated transaction_id was processed and scored
C12_Witness ==
    /\ Loaded
    /\ risk_assessed
    /\ result = "True"
    /\ \E i, j \in Indices(csv_file.rows) :
           i # j /\ csv_file.rows[i].transaction_id = csv_file.rows[j].transaction_id
    /\ \E i \in Indices(risk_scores) : risk_scores[i].risk_score > 0

\* The levels, highest first
LevelRank(level) ==
    CASE level = "Very High" -> 1
      [] level = "High" -> 2
      [] level = "Medium" -> 3
      [] level = "Low" -> 4

\* C13: get_risk_summary returns at most one row per risk level, in the order
\* Very High, High, Medium, Low, and its transaction_count values sum to the
\* number of scored transactions.
C13_SummaryOrderedAndComplete ==
    (AssessorOnScored /\ summary_df # <<>>) =>
        /\ \A a, b \in Indices(summary_df) :
               a < b => LevelRank(summary_df[a].risk_level) < LevelRank(summary_df[b].risk_level)
        /\ SumOver([a \in Indices(summary_df) |-> summary_df[a].transaction_count],
                   Indices(summary_df)) = Len(risk_scores)

\* A summary of at least three levels
C13_Witness ==
    /\ AssessorOnScored
    /\ Len(summary_df) >= 3
    /\ summary_df[1].risk_level = "Very High"

\* C14: get_high_risk_transactions(limit) returns exactly min(limit, number of
\* High and Very High rows) rows, all of them High or Very High, in
\* non-increasing order of risk_score, and no High or Very High row it leaves
\* out has a strictly greater risk_score than one it returns.
C14_TopNByScore ==
    AssessorOnScored =>
        LET high == {r \in {risk_scores[i] : i \in Indices(risk_scores)} :
                        r.risk_level \in {"High", "Very High"}}
            count == Cardinality({i \in Indices(risk_scores) :
                                     risk_scores[i].risk_level \in {"High", "Very High"}})
        IN /\ Len(high_risk_df) = IF limit < count THEN limit ELSE count
           /\ \A a \in Indices(high_risk_df) :
                  /\ high_risk_df[a] \in high
                  /\ high_risk_df[a].risk_level \in {"High", "Very High"}
           /\ \A a, b \in Indices(high_risk_df) :
                  a < b => high_risk_df[a].risk_score >= high_risk_df[b].risk_score
           /\ \A a, b \in Indices(high_risk_df) :
                  a # b => high_risk_df[a].transaction_id # high_risk_df[b].transaction_id
           /\ \A r \in high :
                  (\A a \in Indices(high_risk_df) : high_risk_df[a] # r)
                      => \A a \in Indices(high_risk_df) :
                             r.risk_score <= high_risk_df[a].risk_score

\* A call that returned rows of two scores and left a High row out
C14_Witness ==
    /\ AssessorOnScored
    /\ limit >= 2
    /\ Len(high_risk_df) = limit
    /\ high_risk_df[1].risk_score > high_risk_df[limit].risk_score
    /\ \E i \in HighRiskRows(risk_scores) :
           \A a \in Indices(high_risk_df) : high_risk_df[a] # risk_scores[i]

\* The rows rows are in the order the claim's tie-break gives them: of two rows
\* of equal risk_score the one of the smaller transaction_id comes first, and a
\* row left out does not precede a returned one
TiesByTransactionId(rs, rows) ==
    /\ \A a, b \in Indices(rows) :
           (a < b /\ rows[a].risk_score = rows[b].risk_score)
               => rows[a].transaction_id < rows[b].transaction_id
    /\ \A i \in HighRiskRows(rs) :
           (\A a \in Indices(rows) : rows[a] # rs[i])
               => \A a \in Indices(rows) :
                      rs[i].risk_score = rows[a].risk_score
                          => rows[a].transaction_id < rs[i].transaction_id

\* C15: the top-N query breaks ties by a stable rule (ascending transaction_id,
\* which is the original order of the rows), so that every evaluation returns
\* the same N rows in the same order.
C15_TiesBrokenByStableRule ==
    AssessorOnScored => TiesByTransactionId(risk_scores, high_risk_df)

\* The rows of risk_assessment that are flagged (risk_level HIGH) or not and
\* labelled fraudulent or not, counted
Confusion(flagged, fraudulent) ==
    Cardinality({i \in Indices(risk_assessment) :
        /\ (risk_assessment[i].risk_level = "HIGH") = flagged
        /\ risk_assessment[i].known_fraud = fraudulent})

\* The number q = <<numerator, denominator>> is num / den, or 0 when den is 0
IsRatioOrZero(q, num, den) ==
    /\ q[2] > 0
    /\ IF den = 0 THEN q[1] = 0 ELSE q[1] * den = num * q[2]

\* C16: the report's precision is TP / (TP + FP), its recall TP / (TP + FN) and
\* its F1 2PR / (P + R), where flagged means risk_level HIGH, and each is 0 when
\* its denominator is 0; TP 2, FP 1, FN 1, TN 6 give 2/3 for all three.
C16_DetectionMetrics ==
    risk_report.status = "written" =>
        LET tp == Confusion(TRUE, TRUE)
            fp == Confusion(TRUE, FALSE)
            fn == Confusion(FALSE, TRUE)
            tn == Confusion(FALSE, FALSE)
        IN /\ risk_report.true_positives = tp
           /\ risk_report.false_positives = fp
           /\ risk_report.false_negatives = fn
           /\ risk_report.true_negatives = tn
           /\ IsRatioOrZero(risk_report.precision, tp, tp + fp)
           /\ IsRatioOrZero(risk_report.recall, tp, tp + fn)
           \* 2PR / (P + R) with P = tp / (tp + fp) and R = tp / (tp + fn)
           /\ IsRatioOrZero(risk_report.f1_score,
                            2 * tp * tp,
                            tp * (tp + fn) + tp * (tp + fp))
           /\ (tp = 2 /\ fp = 1 /\ fn = 1 /\ tn = 6)
                  => /\ risk_report.precision = <<2, 3>>
                     /\ risk_report.recall = <<2, 3>>
                     /\ risk_report.f1_score = <<2, 3>>
           /\ (tp = 0 /\ fp = 0) => risk_report.precision[1] = 0

\* The report of the claim's example
C16_Witness ==
    /\ fp_pc = "done"
    /\ risk_report.status = "written"
    /\ risk_report.true_positives = 2
    /\ risk_report.false_positives = 1
    /\ risk_report.false_negatives = 1
    /\ risk_report.true_negatives = 6
    /\ risk_report.f1_score = <<2, 3>>

\* A report with no flagged row: the denominator of precision is 0
C16_WitnessZeroDenominator ==
    /\ fp_pc = "done"
    /\ risk_report.status = "written"
    /\ risk_report.true_positives = 0
    /\ risk_report.false_positives = 0
    /\ risk_report.false_negatives > 0

\* C17: on an empty transaction set the scoring succeeds with an empty scored
\* table, and the report's computations (risk summary, top-N, detection
\* metrics, percentages) complete without error and show zero counts.
C17_EmptySetReportCompletes ==
    (fp_transactions = <<>> /\ "risk_assessment" \in fp_tables
                            /\ fp_pc \notin {"visualize"})
        => /\ risk_assessment = <<>>
           /\ fp_pc = "done"
           /\ risk_report.status = "written"
           /\ risk_report.total_count = 0
           /\ risk_report.risk_summary = <<>>

\* The calls of assess_transaction_risk that follow apply_risk_rules
AfterScoring == {"get_risk_summary", "get_high_risk_transactions", "export_to_csv"}

\* C18: when get_risk_summary, get_high_risk_transactions or export_to_csv
\* fails after apply_risk_rules completed, assess_transaction_risk reports the
\* failure and risk_scores keeps the computed scores and levels: nothing is
\* rolled back.
C18_ScoresKeptWhenReportingFails ==
    (pc = "start" /\ error \in AfterScoring) =>
        /\ result = "False"
        /\ "risk_scores" \in db_tables
        /\ risk_scores = FullyScored(transactions)
        /\ completed # <<>>
        /\ risk_scores = completed[Len(completed)]

\* export_to_csv failed on a table with a score above 0
C18_Witness ==
    /\ pc = "start"
    /\ error = "export_to_csv"
    /\ result = "False"
    /\ \E i \in Indices(risk_scores) : risk_scores[i].risk_level = "Very High"

\* This run of the flow loaded the file and its assess step returned True
ProcessedAndAssessed ==
    /\ flow_pc \in {"visualize", "report", "done"}
    /\ Loaded
    /\ "assess" \in steps
    /\ risk_assessed

FpLoaded == fp_pc \in {"transform", "apply_risk_rules", "visualize", "done", "failed"}

\* C20: after load_data_to_duckdb(csv_path, db_path) returns, the transactions
\* table holds exactly the rows of the CSV file, whatever the database file held
\* before, a transactions table of an earlier run included.
C20_TableHoldsCsvRows ==
    FpLoaded => ("transactions" \in fp_tables /\ fp_transactions = fp_csv)

\* The temporary tables that hold aggregates of the transactions table (the
\* popular categories are a subquery of the UPDATE of rule 4 and have no table)
AggregateTables ==
    {"amount_stats", "high_frequency_accounts", "account_daily_counts",
     "account_avg_activity"}

\* C21: ordering barrier: the aggregates (amount statistics per type,
\* high-frequency accounts, popular categories, daily baselines per account) are
\* all computed before the first UPDATE of risk_score of apply_risk_rules has run.
C21_AggregatesBeforeFirstUpdate ==
    pc \in AfterFirstRule => AggregateTables \subseteq temp_tables

\* 1 for a flag that is set, 0 for one that is not
Bit(flag) == IF flag THEN 1 ELSE 0

\* The number of flags set in row r of risk_assessment
FlagsSet(r) ==
    Bit(r.large_amount_flag) + Bit(r.odd_hours_flag)
    + Bit(r.suspicious_merchant_flag) + Bit(r.rapid_tx_flag)

\* C22: after run_risk_analysis every row of risk_assessment has its four
\* flags, risk_score = 30 large + 25 odd hours + 40 suspicious merchant + 20
\* rapid, and risk_level HIGH iff risk_score >= 50, MEDIUM iff 30 <= risk_score
\* < 50, LOW otherwise; so the level is one of the three and a row with a
\* single flag set is never HIGH.
C22_ScoreAndLevelFromFlags ==
    FpScored =>
        \A i \in Indices(risk_assessment) :
            LET r == risk_assessment[i]
            IN /\ {r.large_amount_flag, r.odd_hours_flag, r.suspicious_merchant_flag,
                    r.rapid_tx_flag} \subseteq BOOLEAN
               /\ r.risk_score = 30 * Bit(r.large_amount_flag) + 25 * Bit(r.odd_hours_flag)
                                 + 40 * Bit(r.suspicious_merchant_flag)
                                 + 20 * Bit(r.rapid_tx_flag)
               /\ (r.risk_level = "HIGH") = (r.risk_score >= 50)
               /\ (r.risk_level = "MEDIUM") = (r.risk_score >= 30 /\ r.risk_score < 50)
               /\ (r.risk_level = "LOW") = (r.risk_score < 30)
               /\ r.risk_level \in {"HIGH", "MEDIUM", "LOW"}
               /\ FlagsSet(r) = 1 => r.risk_level # "HIGH"

\* A table with a row whose only flag is the suspicious merchant (40, MEDIUM),
\* a row of several flags that is HIGH and a row of one flag that is LOW
C22_Witness ==
    /\ FpScored
    /\ \E i, j, k \in Indices(risk_assessment) :
           /\ FlagsSet(risk_assessment[i]) = 1
           /\ risk_assessment[i].suspicious_merchant_flag
           /\ risk_assessment[i].risk_level = "MEDIUM"
           /\ FlagsSet(risk_assessment[j]) >= 2
           /\ risk_assessment[j].risk_level = "HIGH"
           /\ FlagsSet(risk_assessment[k]) = 1
           /\ risk_assessment[k].risk_level = "LOW"

\* The place of a position of the flow in the order of its steps
FlowRank(at) ==
    CASE at = "generate" -> 1
      [] at = "process" -> 2
      [] at = "assess" -> 3
      [] at = "assess_risk_task" -> 4
      [] at = "visualize" -> 5
      [] at = "report" -> 6
      [] at \in {"done", "failed"} -> 7

\* process_data_task was called in this run and returned False
ProcessReturnedFalse ==
    /\ FlowRank(flow_pc) > 2
    /\ flow_pc # "failed"
    /\ "process" \in steps
    /\ data_generated
    /\ ~data_processed

\* assess_transaction_risk is running or has run in this flow
AssessInvoked == flow_pc = "assess_risk_task" \/ result # "none" \/ pc # "start"

\* C23, the part about states: assess_risk_task is invoked only if
\* data_processed holds, that is the process step loaded the file in this run or
\* it was not requested and the database file exists; after process_data_task
\* returned False neither assess nor visualize is invoked.
C23_AssessOnlyWhenProcessed ==
    /\ AssessInvoked =>
           /\ data_processed
           /\ "assess" \in steps
           /\ \/ "process" \in steps /\ data_generated /\ "transactions" \in db_tables
              \/ "process" \notin steps /\ db_file
    /\ viz_read.invoked => ("visualize" \in steps /\ data_processed)
    /\ ProcessReturnedFalse => (~AssessInvoked /\ ~viz_read.invoked)

\* C23: whatever steps are requested, the flow goes through generate, process,
\* assess, visualize, report in that order and never back, and the assess and
\* visualize steps run only as C23_AssessOnlyWhenProcessed says.
C23_FixedOrderOfSteps ==
    /\ []C23_AssessOnlyWhenProcessed
    /\ [][FlowRank(flow_pc') >= FlowRank(flow_pc)]_vars

\* A run of all steps whose process step returned False has ended
C23_Witness ==
    /\ ProcessReturnedFalse
    /\ steps = ALL_STEPS
    /\ flow_pc = "done"
    /\ report_written

\* A run without its process step, on an existing database file, has assessed
C23_WitnessNotRequested ==
    /\ "process" \notin steps
    /\ flow_pc = "done"
    /\ risk_assessed
    /\ result = "True"
    /\ viz_read.invoked

\* assess_risk_task was called in this run and returned False
AssessReturnedFalse ==
    /\ FlowRank(flow_pc) > 4
    /\ "assess" \in steps
    /\ data_processed
    /\ result = "False"

\* C24: when assess_risk_task returns False, no later step of that run that
\* reads risk_scores (the visualization step) is invoked.
C24_NoVisualizationAfterFailedAssessment ==
    AssessReturnedFalse => ~viz_read.invoked

\* C25: the report, which says that all steps completed successfully, is
\* written only in runs in which generation, processing, risk assessment and
\* visualization were all executed and all succeeded.
C25_ReportOnlyAfterAllSteps ==
    report_written =>
        /\ steps = ALL_STEPS
        /\ data_generated
        /\ data_processed
        /\ risk_assessed
        /\ result = "True"
        /\ viz_read.invoked
        /\ viz_read.found

\* C26: every transaction of the generator's odd_hours_activity scenario has
\* odd_hours_flag = TRUE in risk_assessment after run_risk_analysis.
C26_OddHoursScenarioFlagged ==
    FpScored =>
        \A i \in Indices(risk_assessment) :
            risk_assessment[i].known_fraud => risk_assessment[i].odd_hours_flag

\* The rules row i of the transactions table triggers
TriggeredBy(i, ctx) == {k \in RuleIds : Triggers(k, transactions[i], ctx)}

\* The level the claim gives a transaction that triggers exactly the rules T
LevelOfRules(T) ==
    IF T = {} THEN "Low"
    ELSE IF Cardinality(T) = 1 /\ T # {1} THEN "Medium"
    ELSE IF T = {1} \/ T = {2, 4} \/ T = {4, 5} THEN "High"
    ELSE "Very High"

\* C27: with the fixed weights, after create_risk_tables and one
\* apply_risk_rules a transaction is Low iff it triggered no rule, Medium iff it
\* triggered exactly one rule other than rule 1, High iff it triggered only
\* rule 1 or exactly rule 4 with one of rules 2 and 5, and Very High in every
\* other case; a transaction that triggered two or more rules is High or Very
\* High.
C27_LevelByTriggeredRules ==
    Scored =>
        LET ctx == ContextOf(transactions)
        IN \A i \in Indices(risk_scores) :
              /\ risk_scores[i].risk_level = LevelOfRules(TriggeredBy(i, ctx))
              /\ Cardinality(TriggeredBy(i, ctx)) >= 2
                     => risk_scores[i].risk_level \in {"High", "Very High"}

\* A scored table with a row of rule 1 alone (High), a row of two rules that is
\* High and a row of two rules that is Very High
C27_Witness ==
    /\ Scored
    /\ LET ctx == ContextOf(transactions)
       IN /\ \E i \in Indices(risk_scores) :
                 /\ TriggeredBy(i, ctx) \in {{2, 4}, {4, 5}}
                 /\ risk_scores[i].risk_level = "High"
          /\ \E i \in Indices(risk_scores) :
                 /\ Cardinality(TriggeredBy(i, ctx)) = 2
                 /\ risk_scores[i].risk_level = "Very High"
          /\ \E i \in Indices(risk_scores) :
                 /\ Cardinality(TriggeredBy(i, ctx)) = 1
                 /\ risk_scores[i].risk_level = "Medium"

\* The transactions of the type
CountOfType(ty) ==
    Cardinality({i \in Indices(transactions) :
                   transactions[i].transaction_type = ty})

\* Rule 1 gave nothing to the transactions of a type with fewer than six
\* transactions (seen right after the UPDATE of rule 1)
NoRule1BelowSixTransactions ==
    pc = "rule_2" =>
        \A i \in Indices(risk_scores) :
            CountOfType(risk_scores[i].transaction_type) < 6
                => risk_scores[i].risk_score = 0

\* Rule 5 gave nothing to the transactions of an account with fewer than six
\* active days (seen right after the UPDATE of rule 5)
NoRule5BelowSixActiveDays ==
    pc = "risk_level" =>
        LET ctx == ContextOf(transactions)
        IN \A i \in Indices(risk_scores) :
              Cardinality(ActiveDays(risk_scores[i].account_number)) < 6
                => risk_scores[i].risk_score
                     = WeightOfTriggered(transactions[i], {1, 2, 3, 4}, ctx)

\* C28: the thresholds being mean + 2 * sample stddev, rule 1 never triggers for
\* a transaction type with fewer than 6 transactions and rule 5 never triggers
\* for an account with fewer than 6 active days.
C28_NoTriggerBelowSixSamples ==
    /\ NoRule1BelowSixTransactions
    /\ NoRule5BelowSixActiveDays

\* ------------------------------------------------------------------------
\* Transactions without a merchant
\* ------------------------------------------------------------------------

\* The lines of the file that have no merchant_category
NoMerchantLines ==
    {j \in Indices(csv_file.rows) : csv_file.rows[j].merchant_category = Null}

\* Row i of the table comes from a line of the file without merchant_category
HasNoMerchant(i) ==
    \E j \in NoMerchantLines :
        csv_file.rows[j].transaction_id = transactions[i].transaction_id

\* What rule 4 added to the score of row i
Rule4Share(i) ==
    risk_scores[i].risk_score
      - WeightOfTriggered(transactions[i], {1, 2, 3, 5}, ContextOf(transactions))

\* C29: clean_data replaces an absent merchant_category by 'N/A' and the rules
\* treat it as an ordinary category: a transaction without a merchant receives
\* rule 4's weight (0.3) exactly when at most 10 transactions of the dataset have
\* no merchant, and never otherwise.
C29_NoMerchantAsOrdinaryCategory ==
    Scored =>
        \A i \in Indices(risk_scores) :
            HasNoMerchant(i) =>
                /\ transactions[i].merchant_category = "N/A"
                /\ Rule4Share(i) = IF Cardinality(NoMerchantLines) <= 10
                                   THEN WEIGHT_UNUSUAL_MERCHANT ELSE 0

\* A scored table of exactly 10 transactions without a merchant, next to a
\* popular category
C29_Witness ==
    /\ Scored
    /\ Cardinality(NoMerchantLines) = 10
    /\ CategoryCount("retail") = 11
    /\ \E i \in Indices(risk_scores) :
          HasNoMerchant(i) /\ Rule4Share(i) = WEIGHT_UNUSUAL_MERCHANT

\* A scored table of 11 transactions without a merchant, none of which has rule
\* 4's weight
C29_WitnessPopular ==
    /\ Scored
    /\ Cardinality(NoMerchantLines) = 11
    /\ \E i \in Indices(risk_scores) : HasNoMerchant(i) /\ Rule4Share(i) = 0

\* ------------------------------------------------------------------------
\* A second apply_risk_rules on the same connection
\* ------------------------------------------------------------------------

\* apply_risk_rules is entered on a connection on which it has completed
SecondCallEntered == pc = "rule_1" /\ Len(completed) >= 1

\* The first statement of a second call raises and leaves risk_scores as it is
SecondCallRaisesUnchanged ==
    SecondCallEntered => (pc' = "raised" /\ risk_scores' = risk_scores)

\* C30: on one RiskAssessor connection a second call of apply_risk_rules, with or
\* without create_risk_tables in between, fails when it re-creates amount_stats,
\* before any risk_score or risk_level is modified: risk_scores is left as it
\* was before that call, and apply_risk_rules completes at most once.
C30_SecondApplyFailsUnchanged ==
    /\ [][SecondCallRaisesUnchanged]_vars
    /\ [](Len(completed) <= 1)
    /\ [](pc = "raised" => risk_scores \in {completed[1], InitialRiskScores(transactions)})

\* The second call, made right after the first, has raised: risk_scores holds
\* the scores and levels of the first call
C30_Witness ==
    /\ pc = "raised"
    /\ calls_left = MaxMethodCalls - 1
    /\ risk_scores = completed[1]
    /\ \E i \in Indices(risk_scores) : risk_scores[i].risk_score > 0

\* The second call, made after another create_risk_tables, has raised:
\* risk_scores is as create_risk_tables built it
C30_WitnessRecreated ==
    /\ pc = "raised"
    /\ risk_scores = InitialRiskScores(transactions)
    /\ risk_scores # completed[1]

====
